---------------------------- MODULE Spec2Model ----------------------------
(***************************************************************************)
(* A model of the bento process supervisor: the per-service output buffer  *)
(* (service/output.go), the Service lifecycle (service/service.go) and the *)
(* server's restart watcher, registry and temp-service reaper              *)
(* (server/server.go).                                                     *)
(*                                                                         *)
(* Go slices are 0-based, TLA+ sequences 1-based: the Go element           *)
(* out.lines[i] is lines[i + 1] here, and the Go window indices index and  *)
(* end keep their Go values.                                               *)
(***************************************************************************)
EXTENDS Integers, Sequences, FiniteSets, TLC

(***************************************************************************)
(* Bounds of the output model.                                             *)
(***************************************************************************)
\* followNewProcess is called at most this many times
MaxFollows == 2
\* at most this many lines are read from all streams together
MaxCaptured == 3
\* a line is 1..MaxLineLen bytes long
MaxLineLen == 1
\* the cap on the retained bytes (maxOutputSize, 100 MiB in the program),
\* scaled down so that eviction happens within MaxCaptured lines
MaxOutputSize == 1
\* the tailer asks for the global indices 0..MaxAsk
MaxAsk == 2
\* ... for the last 1..MaxBack lines
MaxBack == 1
\* ... and for at most 0..MaxLines lines (0: no limit)
MaxLines == 1

(***************************************************************************)
(* Bounds of the lifecycle model.                                          *)
(***************************************************************************)
\* child processes spawned in one behaviour
MaxStarts == 2
\* Start and Stop commands issued in one behaviour
MaxCmds == 2

VARIABLES
    \* ---- Service (service/service.go) and Server (server/server.go) ----
    conf,            \* s.Conf: the RestartOnExit and Temp flags
    registered,      \* s.services[name] is the instance
    servicesLocked,  \* s.servicesLock is held exclusively (removeService)
    stateLocked,     \* s.stateLock is held exclusively (Start, watchForExit)
    exitChan,        \* s.exitChan: the channel the field holds
    startChan,       \* s.startChan: the channel the field holds
    exitClosed,      \* the exit channels that are closed
    startClosed,     \* the start channels that are closed
    process,         \* s.process: 0 (nil) or the child spawned last
    endTime,         \* s.endTime is set (not the zero time)
    userStopped,     \* s.userStopped
    procs,           \* the children and their watchForExit goroutines
    pubs,            \* the sendPeriodicUpdates goroutines that are running
    thr,             \* the command handlers, restart watchers and death watchers
    watchedServices, \* s.watchedServices[name]: "none" or the watcher whose cancel it holds
    deathWatcherCancels, \* deathWatcherCancels[name]: "none" or the death watcher whose cancel it holds
    bus,             \* the watchServices goroutine: receiving, or handling an Info
    crashed,         \* a goroutine panicked with no recover: the daemon is gone
    ncmds,           \* number of commands issued
    quiet,           \* a Stop command has returned and no Start command was issued since
    rogue,           \* a restart watcher spawned a child while quiet
    \* ---- output (service/output.go) ----
    lines,        \* out.lines: the retained window of OutputLine records
    indexOffset,  \* out.indexOffset: number of lines evicted from the front
    pid,          \* out.pid: pid of the streams being watched, 0 if none
    readers,      \* the watchOutput goroutines, two per followNewProcess
    pidWatch,     \* the watchPid goroutines: follow number -> "none" | "waiting" | "done"
    follows,      \* number of followNewProcess calls so far (pids are 1..follows)
    captured,     \* number of lines appended so far (the next global index)
    tail,         \* the last two Get calls of a tailing client
    \* ---- the registry and LoadServices (server/server.go, cmd_load_services.go) ----
    services,     \* s.services: name -> instance registered under it, 0 if none
    insts,        \* the Service instances made so far: their Conf and whether they run
    watch,        \* s.watchedServices: name -> instance its restart watcher restarts, 0 if none
    reap,         \* deathWatcherCancels: the names with a death watcher waiting
    autoStarts,   \* the names with an auto-start goroutine not yet run (server.go:194-198)
    file,         \* the service file: name -> the config listed for it, or NoConf
    load,         \* the LoadServices call in progress or last finished
    pub,          \* the Infos addService or removeService sent on s.serviceUpdates in the last step
    run,          \* the instance a Run command has added and not yet started, 0 if none
    \* ---- the rendezvous file and the daemons that open it (server.go:375-419) ----
    now,          \* the time, in seconds
    fifo,         \* the file at s.fifoAddr: whether it exists and its modification time
    daemon,       \* the daemon processes: where each is, and when its heartbeat is due
    \* ---- the owner of the rendezvous file (server.go:71-154, 375-399) ----
    owner,        \* the daemon whose listener made the file now at s.fifoAddr, "none" if there is none
    \* ---- Exit and the serve loop (cmd_exit.go, server.go:116-131) ----
    serve,        \* the serve loop of Init in daemon Looper: where it is, s.stop, the connections waiting for accept
    exits,        \* the Exit calls on that daemon: where each is
    \* ---- the shutdown of Init (server.go:133-153) ----
    shut,         \* the shutdown of Init: where it is, the names its loop has not visited, its loop variable srvc, the goroutines it has started, the instances that ran when it began
    \* ---- Run naming its service (cmd_run.go:151-173) ----
    pick,         \* a Run call that was given no name: where it is, its program, the name prog it tries, the counter i of its loop, the name it has settled on
    \* ---- Clean (cmd_clean.go:80-114) ----
    clean,        \* a Clean call: where it is, its arguments, the time it began, the services it has still to look at, the name it is to remove, what it has removed
    endTimes,     \* the EndTime of each instance
    \* ---- List (cmd_list.go:39-69) ----
    reply,        \* the arguments and the reply of the last List call
    \* ---- Tail (cmd_tail.go:50-79) ----
    tl,           \* a Tail call: where it is, its arguments, the time since its deadline was set, its Get calls and the reply of the last one
    \* ---- Info.Succeeded (service.go:249-288) ----
    st,           \* the fields of a Service that Info reads: whether it runs, userStopped, Conf.RestartOnExit, state
    shown,        \* the last Info taken of it, and the fields it was taken from
    \* ---- the event bus (server.go:317-373) ----
    upIn,         \* updatesIn: the goroutines blocked in a send on it, in the order they came, and the Info each sends
    hub,          \* the watchServices goroutine: receiving, or handling the Info it holds
    upOut,        \* updatesOut: the number of Infos buffered in it
    tally,        \* what has happened so far: an Info was dropped at the full buffer, a blocked send has completed since
    \* ---- EqualIgnoringSafeFields (config/service.go:66-90) ----
    cmp,          \* the two configs of an EqualIgnoringSafeFields call, and what it returned
    \* ---- Info and the state lock (service.go:249-288, 431-441) ----
    rw,           \* s.stateLock, a sync.RWMutex: the read locks held, the goroutines waiting in Lock, the goroutine holding it exclusively
    calls         \* the Info calls: where each is

outVars == <<lines, indexOffset, pid, readers, pidWatch, follows, captured, tail>>

svcVars == <<conf, registered, servicesLocked, stateLocked, exitChan, startChan,
             exitClosed, startClosed, process, endTime, userStopped,
             procs, pubs, thr, watchedServices, deathWatcherCancels, bus, crashed,
             ncmds, quiet, rogue>>

regVars == <<services, insts, watch, reap, autoStarts, file, load, pub, run>>

fifoVars == <<now, fifo, daemon>>

ownVars == <<owner>>

exitVars == <<serve, exits>>

shutVars == <<shut>>

pickVars == <<pick>>

cleanVars == <<clean, endTimes>>

listVars == <<reply>>

tailVars == <<tl>>

infoVars == <<st, shown>>

busVars == <<upIn, hub, upOut, tally>>

cmpVars == <<cmp>>

lockVars == <<rw, calls>>

vars == <<svcVars, outVars, regVars, fifoVars, ownVars, exitVars, shutVars, pickVars, cleanVars, listVars, tailVars, infoVars, busVars, cmpVars, lockVars>>

(***************************************************************************)
(* OutputLine (output.go:9-18).  Line is kept as its length, the only      *)
(* thing the buffer reads of it, and the Stderr flag, which the buffer     *)
(* never reads, is left out; seq is the number of lines captured before    *)
(* this one, which identifies the line in the properties.                  *)
(***************************************************************************)
OutputLine(p, len, seq) ==
    [Pid |-> p, Line |-> len, seq |-> seq]

Pids == 0 .. MaxFollows
ReaderIds == 1 .. 2 * MaxFollows
NoReader == [pid |-> 0, isStderr |-> FALSE, size |-> 0, st |-> "none"]

\* the two watchOutput goroutines of the k-th followNewProcess
StdoutReader(k) == 2 * k - 1
StderrReader(k) == 2 * k

(***************************************************************************)
(* output.Get (output.go:79-145)                                           *)
(***************************************************************************)
\* output.go:96-98   for end > 0 && pid != out.lines[end-1].Pid { end-- }
RECURSIVE PidEnd(_, _, _)
PidEnd(ls, p, end) ==
    IF end > 0 /\ p # ls[end].Pid THEN PidEnd(ls, p, end - 1) ELSE end

\* output.go:105-107 for index > 0 && end-index < num && (pid == 0 || out.lines[index-1].Pid == pid) { index-- }
RECURSIVE ScanBack(_, _, _, _, _)
ScanBack(ls, p, end, num, index) ==
    IF index > 0 /\ end - index < num /\ (p = 0 \/ ls[index].Pid = p)
    THEN ScanBack(ls, p, end, num, index - 1)
    ELSE index

\* output.go:84-115: the window index a global or reverse index stands for
WindowIndex(ls, offset, curPid, index, p) ==
    LET raw ==
          IF index >= 0
          THEN index - offset
          ELSE LET end == IF p > 0 /\ p # curPid THEN PidEnd(ls, p, Len(ls)) ELSE Len(ls)
               IN  IF end > 0 THEN ScanBack(ls, p, end, -1 * index, end) ELSE index
    IN  IF raw < 0 THEN 0 ELSE raw

\* output.go:118-121 for end < len(out.lines) && (max == 0 || end-index < max) && (pid == 0 || pid == out.lines[end].Pid) { end++ }
RECURSIVE ScanForward(_, _, _, _, _)
ScanForward(ls, p, max, index, end) ==
    IF end < Len(ls) /\ (max = 0 \/ end - index < max) /\ (p = 0 \/ p = ls[end + 1].Pid)
    THEN ScanForward(ls, p, max, index, end + 1)
    ELSE end

\* a Get that returns the window index as the next index
NextIndexOfWindow(offset, end) == end

\* output.go:129
NextIndexOf(offset, end) == offset + end

\* output.go:132-137
NextPidOf(ls, curPid, end) ==
    IF end < Len(ls) THEN ls[end + 1].Pid ELSE curPid

\* output.go:142
EofOf(p, nextPid) == p # 0 /\ p # nextPid

Get(ls, offset, curPid, index, p, max) ==
    LET start   == WindowIndex(ls, offset, curPid, index, p)
        end     == ScanForward(ls, p, max, start, start)
        nextPid == NextPidOf(ls, curPid, end)
    IN  [lines     |-> IF end - start > 0 THEN SubSeq(ls, start + 1, end) ELSE <<>>,
         eof       |-> EofOf(p, nextPid),
         nextIndex |-> NextIndexOf(offset, end),
         nextPid   |-> nextPid]

(***************************************************************************)
(* output.followNewProcess (output.go:37-60).  The pids of the processes   *)
(* of one service are distinct: the k-th call attaches pid k.              *)
(***************************************************************************)
followNewProcess ==
    /\ follows < MaxFollows
    /\ LET k == follows + 1 IN
         /\ follows' = k
         /\ pid' = k
         /\ readers' = [readers EXCEPT
                ![StdoutReader(k)] = [pid |-> k, isStderr |-> FALSE, size |-> 0, st |-> "scanning"],
                ![StderrReader(k)] = [pid |-> k, isStderr |-> TRUE, size |-> 0, st |-> "scanning"]]
         /\ pidWatch' = [pidWatch EXCEPT ![k] = "waiting"]
    /\ UNCHANGED <<svcVars, regVars, fifoVars, ownVars, exitVars, shutVars, pickVars, cleanVars, listVars, tailVars, infoVars, busVars, cmpVars, lockVars, lines, indexOffset, captured, tail>>

(***************************************************************************)
(* output.watchOutput (output.go:148-190): one iteration of the scan loop  *)
(* for a line of `len` bytes.                                              *)
(***************************************************************************)
\* output.go:183-187 for len(out.lines) > 1 && size > maxOutputSize { ... }
RECURSIVE Evict(_, _, _)
Evict(ls, size, offset) ==
    IF Len(ls) > 1 /\ size > MaxOutputSize
    THEN Evict(Tail(ls), size - ls[1].Line, offset + 1)
    ELSE [lines |-> ls, size |-> size, indexOffset |-> offset]

\* output.go:165-188: the locked body; a line of a replaced process is dropped
AppendLine(r, len) ==
    IF readers[r].pid # pid
    THEN [lines |-> lines, size |-> readers[r].size, indexOffset |-> indexOffset]
    ELSE Evict(Append(lines, OutputLine(readers[r].pid, len, captured)),
               readers[r].size + len, indexOffset)

watchOutputLine(r, len) ==
    /\ readers[r].st = "scanning"
    /\ captured < MaxCaptured
    /\ LET a == AppendLine(r, len) IN
         /\ lines' = a.lines
         /\ indexOffset' = a.indexOffset
         /\ readers' = [readers EXCEPT ![r].size = a.size]
         /\ captured' = IF readers[r].pid = pid THEN captured + 1 ELSE captured
    /\ UNCHANGED <<svcVars, regVars, fifoVars, ownVars, exitVars, shutVars, pickVars, cleanVars, listVars, tailVars, infoVars, busVars, cmpVars, lockVars, pid, pidWatch, follows, tail>>

\* output.go:153,189: Scan() returns false, the stream has ended; done.Done()
watchOutputEnd(r) ==
    /\ readers[r].st = "scanning"
    /\ readers' = [readers EXCEPT ![r].st = "done"]
    /\ UNCHANGED <<svcVars, regVars, fifoVars, ownVars, exitVars, shutVars, pickVars, cleanVars, listVars, tailVars, infoVars, busVars, cmpVars, lockVars, lines, indexOffset, pid, pidWatch, follows, captured, tail>>

\* output.go:159-163: out.cancel is read without the lock while
\* followNewProcess closes and replaces it (output.go:42-45); a reader of a
\* replaced process that reads the closed channel returns
watchOutputCancelled(r) ==
    /\ readers[r].st = "scanning"
    /\ readers[r].pid < follows
    /\ readers' = [readers EXCEPT ![r].st = "done"]
    /\ UNCHANGED <<svcVars, regVars, fifoVars, ownVars, exitVars, shutVars, pickVars, cleanVars, listVars, tailVars, infoVars, busVars, cmpVars, lockVars, lines, indexOffset, pid, pidWatch, follows, captured, tail>>

(***************************************************************************)
(* output.watchPid (output.go:194-205)                                     *)
(***************************************************************************)
watchPid(k) ==
    /\ pidWatch[k] = "waiting"
    /\ readers[StdoutReader(k)].st = "done"
    /\ readers[StderrReader(k)].st = "done"
    /\ pidWatch' = [pidWatch EXCEPT ![k] = "done"]
    /\ pid' = IF pid = k THEN 0 ELSE pid
    /\ UNCHANGED <<svcVars, regVars, fifoVars, ownVars, exitVars, shutVars, pickVars, cleanVars, listVars, tailVars, infoVars, busVars, cmpVars, lockVars, lines, indexOffset, readers, follows, captured, tail>>

(***************************************************************************)
(* A tailing client (server/cmd_tail.go Tail, client/cmd_tail.go): a Get   *)
(* with arguments of its choice, or a Get that continues at the nextIndex  *)
(* of its previous call.  Each call is recorded with the state it saw.     *)
(***************************************************************************)
Seqs(ls) == [i \in 1 .. Len(ls) |-> ls[i].seq]

NoCall == [called |-> FALSE]

\* a Get call: its arguments, its results (the lines as their seq numbers),
\* and what the buffer was when it ran
Call(index, p, max) ==
    LET res == Get(lines, indexOffset, pid, index, p, max) IN
    [called |-> TRUE, index |-> index, pid |-> p,
     seqs |-> Seqs(res.lines), eof |-> res.eof,
     nextIndex |-> res.nextIndex, nextPid |-> res.nextPid,
     offset |-> indexOffset, followed |-> p \in 1 .. follows]

TailGet(index, p, max) ==
    /\ tail' = [prev |-> NoCall, cur |-> Call(index, p, max)]
    /\ UNCHANGED <<svcVars, regVars, fifoVars, ownVars, exitVars, shutVars, pickVars, cleanVars, listVars, tailVars, infoVars, busVars, cmpVars, lockVars, lines, indexOffset, pid, readers, pidWatch, follows, captured>>

\* what the client keeps of a call when it continues from it
Kept(c) ==
    [called |-> TRUE, pid |-> c.pid, eof |-> c.eof, nextIndex |-> c.nextIndex,
     followed |-> c.followed, seqs |-> c.seqs]

TailGetNext(p, max) ==
    /\ tail.cur.called
    /\ ~tail.prev.called
    /\ tail' = [prev |-> Kept(tail.cur), cur |-> Call(tail.cur.nextIndex, p, max)]
    /\ UNCHANGED <<svcVars, regVars, fifoVars, ownVars, exitVars, shutVars, pickVars, cleanVars, listVars, tailVars, infoVars, busVars, cmpVars, lockVars, lines, indexOffset, pid, readers, pidWatch, follows, captured>>

(***************************************************************************)
(* The Service lifecycle (service/service.go) of one Service instance,     *)
(* registered under its name, and the goroutines of the Server that act    *)
(* on it (server/server.go).  Time is not modelled: a timer may fire at    *)
(* any moment it is armed.                                                 *)
(***************************************************************************)
Cmds == {"c1", "c2"}        \* goroutines serving a Start or Stop command
Watchers == {"w1", "w2"}    \* restart watcher goroutines
Reapers == {"r1", "r2"}     \* death watcher goroutines at a time
Threads == Cmds \cup Watchers \cup Reapers

\* server.go:20-21 minRestartPause (500 ms) and maxRestartPause (1 min), in
\* units in which the pause doubles twice before it reaches the ceiling
minRestartPause == 1
maxRestartPause == 4

\* signals := []os.Signal{os.Interrupt, syscall.SIGTERM, os.Kill} (service.go:378)
NumSignals == 3

Idle == [pc |-> "idle", op |-> "none", res |-> "none", err |-> FALSE,
         sig |-> 0, ch |-> 0, pause |-> 0, cancel |-> FALSE, raced |-> FALSE]

\* the first goroutine of ts that is not running, for a `go` statement
FreeOf(th, ts) ==
    LET free == {i \in 1 .. Len(ts) : th[ts[i]].pc = "idle"}
    IN  IF free = {} THEN "none"
        ELSE ts[CHOOSE i \in free : \A j \in free : i <= j]

NoInfo == [Running |-> FALSE, EndTime |-> FALSE, Dead |-> FALSE]

\* Service.Running (service.go:411-418)
Running == exitChan \notin exitClosed

\* Service.Info (service.go:249-288): the fields the server reads
Info == [Running |-> Running, EndTime |-> endTime, Dead |-> FALSE]

\* select { case updates <- s.Info(): default: } (service.go:298-301,
\* 524-527, 547-550) on the unbuffered updatesIn: the Info is received if
\* the watchServices goroutine is at its receive, and dropped otherwise
TrySend(info) ==
    IF bus.st = "recv" THEN [st |-> "busy", info |-> info] ELSE bus

\* a close that leaves the channel open
CloseChanSkipped(closed, ch) == closed

\* close(ch) (service.go:366, 563): the closed channels afterwards
CloseChan(closed, ch) == closed \cup {ch}

\* a Start or a Stop command that has not replied yet.  A Stop command is
\* marked raced if a Start command was in progress at any time during it.
StartInProgress(c) == c \in Cmds /\ thr[c].op = "Start" /\ thr[c].pc # "idle"
StopInProgress(c) == c \in Cmds /\ thr[c].op = "Stop" /\ thr[c].pc # "idle"

LiveChildren == {k \in 1 .. MaxStarts : procs[k] = "alive"}

(***************************************************************************)
(* Service.Start (service.go:291-369), run by a command handler or by a    *)
(* restart watcher.                                                        *)
(***************************************************************************)
\* where Service.Start returns to
AfterStart(t, err) ==
    IF t \in Cmds
    THEN [thr[t] EXCEPT !.pc = "StartWatch", !.err = err]
    ELSE IF thr[t].cancel THEN Idle
         ELSE [thr[t] EXCEPT !.pc = "outer", !.err = FALSE, !.ch = exitChan]

\* service.go:304-355: take the locks, clear the runtime fields, resolve
\* the program, open the pipes and spawn the child; `ok` is whether all of
\* that succeeds.  On success the state lock stays held for StartClose.
StartLock(t, ok) ==
    /\ ~crashed
    /\ thr[t].pc = "StartLock"
    /\ ~stateLocked
    /\ endTime' = FALSE
    /\ userStopped' = FALSE
    /\ IF ok
       THEN /\ Cardinality({k \in 1 .. MaxStarts : procs[k] # "none"}) < MaxStarts
            /\ LET k == 1 + Cardinality({j \in 1 .. MaxStarts : procs[j] # "none"}) IN
                 /\ procs' = [procs EXCEPT ![k] = "alive"]
                 /\ pubs' = pubs \cup {k}
                 /\ exitChan' = k
                 /\ process' = k
            /\ stateLocked' = TRUE
            /\ thr' = [thr EXCEPT ![t].pc = "StartClose"]
            /\ rogue' = (rogue \/ (quiet /\ t \in Watchers))
       ELSE /\ process' = 0
            /\ thr' = [thr EXCEPT ![t].pc = "StartUpdate", ![t].err = TRUE]
            /\ UNCHANGED <<procs, pubs, exitChan, stateLocked, rogue>>
    /\ UNCHANGED <<conf, registered, servicesLocked, startChan, exitClosed, startClosed,
                   watchedServices, deathWatcherCancels, bus, crashed,
                   ncmds, quiet>>
    /\ UNCHANGED <<outVars, regVars, fifoVars, ownVars, exitVars, shutVars, pickVars, cleanVars, listVars, tailVars, infoVars, busVars, cmpVars, lockVars>>

\* service.go:366 close(s.startChan), then the deferred unlocks.  Closing a
\* closed channel panics: Server.Start recovers (cmd_start.go:56-61), the
\* restart watcher goroutine does not.
StartClose(t) ==
    /\ ~crashed
    /\ thr[t].pc = "StartClose"
    /\ stateLocked' = FALSE
    /\ IF startChan \in startClosed
       THEN /\ crashed' = (t \notin Cmds)
            /\ thr' = [thr EXCEPT ![t].pc = "StartUpdate", ![t].err = TRUE]
            /\ UNCHANGED startClosed
       ELSE /\ startClosed' = CloseChan(startClosed, startChan)
            /\ thr' = [thr EXCEPT ![t].pc = "StartUpdate"]
            /\ UNCHANGED crashed
    /\ UNCHANGED <<conf, registered, servicesLocked, exitChan, startChan, exitClosed,
                   process, endTime, userStopped, procs, pubs,
                   watchedServices, deathWatcherCancels, bus, ncmds, quiet, rogue>>
    /\ UNCHANGED <<outVars, regVars, fifoVars, ownVars, exitVars, shutVars, pickVars, cleanVars, listVars, tailVars, infoVars, busVars, cmpVars, lockVars>>

\* service.go:297-302: the deferred update, sent once the locks are released
StartUpdate(t) ==
    /\ ~crashed
    /\ thr[t].pc = "StartUpdate"
    /\ ~stateLocked
    /\ bus' = TrySend(Info)
    /\ thr' = [thr EXCEPT ![t] = AfterStart(t, thr[t].err)]
    /\ UNCHANGED <<conf, registered, servicesLocked, stateLocked, exitChan, startChan,
                   exitClosed, startClosed, process, endTime, userStopped,
                   procs, pubs, watchedServices, deathWatcherCancels, crashed,
                   ncmds, quiet, rogue>>
    /\ UNCHANGED <<outVars, regVars, fifoVars, ownVars, exitVars, shutVars, pickVars, cleanVars, listVars, tailVars, infoVars, busVars, cmpVars, lockVars>>

(***************************************************************************)
(* Server.Start (cmd_start.go:55-82)                                       *)
(***************************************************************************)
\* cmd_start.go:63-69 and service.go:292-294: look the service up and call
\* Service.Start, which returns at once if the service is running
CmdStart(c) ==
    /\ ~crashed
    /\ thr[c].pc = "idle"
    /\ ncmds < MaxCmds
    /\ ~servicesLocked
    /\ registered
    /\ ncmds' = ncmds + 1
    /\ quiet' = FALSE
    /\ thr' = [t \in Threads |->
                 IF t = c
                 THEN IF Running
                      THEN [Idle EXCEPT !.op = "Start", !.res = "err"]
                      ELSE [Idle EXCEPT !.op = "Start", !.pc = "StartLock"]
                 ELSE IF StopInProgress(t) THEN [thr[t] EXCEPT !.raced = TRUE]
                      ELSE thr[t]]
    /\ UNCHANGED <<conf, registered, servicesLocked, stateLocked, exitChan, startChan,
                   exitClosed, startClosed, process, endTime, userStopped,
                   procs, pubs, watchedServices, deathWatcherCancels, bus, crashed, rogue>>
    /\ UNCHANGED <<outVars, regVars, fifoVars, ownVars, exitVars, shutVars, pickVars, cleanVars, listVars, tailVars, infoVars, busVars, cmpVars, lockVars>>

\* the watcher goroutine addServiceToRestartWatch launches (server.go:261-268),
\* waiting on the exit channel it read when it entered its select
NewWatcher == [Idle EXCEPT !.pc = "outer", !.pause = minRestartPause, !.ch = exitChan]

\* server.go:254-256, 308-310 close(cancel): a watcher waiting in a select
\* returns; one that is inside Service.Start sees it when it is back
CancelWatcher(th, w) ==
    IF w = "none" THEN th
    ELSE IF th[w].pc \in {"outer", "inner"} THEN [th EXCEPT ![w] = Idle]
         ELSE [th EXCEPT ![w].cancel = TRUE]

\* cmd_start.go:71-81: if started and RestartOnExit,
\* addServiceToRestartWatch (server.go:247-300); then the reply
CmdStartWatch(c) ==
    /\ ~crashed
    /\ thr[c].pc = "StartWatch"
    /\ ~stateLocked
    /\ IF ~thr[c].err /\ conf.RestartOnExit
       THEN LET th == CancelWatcher(thr, watchedServices) IN
            \E w \in {FreeOf(th, <<"w1", "w2">>)} :
              /\ w # "none"
              /\ watchedServices' = w
              /\ thr' = [th EXCEPT ![w] = NewWatcher,
                                   ![c] = [Idle EXCEPT !.op = "Start", !.res = "ok"]]
       ELSE /\ thr' = [thr EXCEPT ![c] = [Idle EXCEPT !.op = "Start",
                                    !.res = IF thr[c].err THEN "err" ELSE "ok"]]
            /\ UNCHANGED watchedServices
    /\ UNCHANGED <<conf, registered, servicesLocked, stateLocked, exitChan, startChan,
                   exitClosed, startClosed, process, endTime, userStopped,
                   procs, pubs, deathWatcherCancels, bus, crashed, ncmds, quiet, rogue>>
    /\ UNCHANGED <<outVars, regVars, fifoVars, ownVars, exitVars, shutVars, pickVars, cleanVars, listVars, tailVars, infoVars, busVars, cmpVars, lockVars>>

(***************************************************************************)
(* Service.Stop (service.go:372-402), run by the Stop command handler or   *)
(* by removeService.                                                       *)
(***************************************************************************)
\* where Service.Stop returns to: Server.Stop replies (part_023:47-54);
\* removeService goes on to delete, or gives the error back (server.go:213-215)
StopReturn(t, res) ==
    /\ thr' = [thr EXCEPT ![t] =
                 IF t \in Cmds
                 THEN [thr[t] EXCEPT !.pc = "idle", !.res = res, !.raced = FALSE]
                 ELSE IF res = "ok" THEN [Idle EXCEPT !.pc = "RemoveFinish"]
                      ELSE Idle]
    /\ quiet' = (quiet \/ (t \in Cmds /\ ~thr[t].raced))
    /\ servicesLocked' = (servicesLocked /\ ~(t \in Reapers /\ res # "ok"))

\* service.go:373-375 if !s.Running() { return nil }
StopCheck(t) ==
    /\ ~crashed
    /\ thr[t].pc = "Stop"
    /\ IF Running
       THEN /\ thr' = [thr EXCEPT ![t].pc = "StopSignal", ![t].sig = 1]
            /\ UNCHANGED <<quiet, servicesLocked>>
       ELSE StopReturn(t, "ok")
    /\ UNCHANGED <<conf, registered, stateLocked, exitChan, startChan, exitClosed,
                   startClosed, process, endTime, userStopped, procs, pubs,
                   watchedServices, deathWatcherCancels, bus, crashed, ncmds, rogue>>
    /\ UNCHANGED <<outVars, regVars, fifoVars, ownVars, exitVars, shutVars, pickVars, cleanVars, listVars, tailVars, infoVars, busVars, cmpVars, lockVars>>

\* service.go:382-384 and signal (465-479), then the read of s.exitChan the
\* select at 387-389 waits on.  `reaped` is whether cmd.Wait has already
\* collected a child that exited, in which case Process.Signal fails.
\* s.process is nil after a Start that failed (service.go:312): signalling
\* it panics, which Server.Stop recovers (part_023:27-32) and the death
\* watcher goroutine does not.
StopSignal(t, reaped) ==
    /\ ~crashed
    /\ thr[t].pc = "StopSignal"
    /\ ~stateLocked
    /\ IF ~Running
       THEN StopReturn(t, "sigerr") /\ UNCHANGED crashed
       ELSE IF process = 0
       THEN IF t \in Cmds
            THEN StopReturn(t, "panic") /\ UNCHANGED crashed
            ELSE crashed' = TRUE /\ UNCHANGED <<thr, quiet, servicesLocked>>
       ELSE IF procs[process] \in {"closed", "done"}
               \/ (procs[process] = "exited" /\ reaped)
       THEN StopReturn(t, "sigerr") /\ UNCHANGED crashed
       ELSE /\ thr' = [thr EXCEPT ![t].pc = "StopWait", ![t].ch = exitChan]
            /\ UNCHANGED <<quiet, servicesLocked, crashed>>
    /\ UNCHANGED <<conf, registered, stateLocked, exitChan, startChan, exitClosed,
                   startClosed, process, endTime, userStopped, procs, pubs,
                   watchedServices, deathWatcherCancels, bus, ncmds, rogue>>
    /\ UNCHANGED <<outVars, regVars, fifoVars, ownVars, exitVars, shutVars, pickVars, cleanVars, listVars, tailVars, infoVars, busVars, cmpVars, lockVars>>

\* the exit Service.Stop waits for would be seen without the channel closing
StopObservedAlways(t) == TRUE

\* service.go:389 case <-s.exitChan: the channel read at the select is closed
StopObserved(t) == thr[t].ch \in exitClosed

\* service.go:389-397: the exit is seen
StopExit(t) ==
    /\ ~crashed
    /\ thr[t].pc = "StopWait"
    /\ StopObserved(t)
    /\ thr' = [thr EXCEPT ![t].pc = "StopMark"]
    /\ UNCHANGED <<conf, registered, servicesLocked, stateLocked, exitChan, startChan,
                   exitClosed, startClosed, process, endTime, userStopped, procs, pubs,
                   watchedServices, deathWatcherCancels, bus, crashed, ncmds, quiet, rogue>>
    /\ UNCHANGED <<outVars, regVars, fifoVars, ownVars, exitVars, shutVars, pickVars, cleanVars, listVars, tailVars, infoVars, busVars, cmpVars, lockVars>>

\* service.go:388 case <-time.After(10 * time.Second): the next signal, or
\* "Failed to stop service" (401) after the last
StopTimeout(t) ==
    /\ ~crashed
    /\ thr[t].pc = "StopWait"
    /\ ~StopObserved(t)
    /\ IF thr[t].sig < NumSignals
       THEN /\ thr' = [thr EXCEPT ![t].pc = "StopSignal", ![t].sig = @ + 1]
            /\ UNCHANGED <<quiet, servicesLocked>>
       ELSE StopReturn(t, "failed")
    /\ UNCHANGED <<conf, registered, stateLocked, exitChan, startChan, exitClosed,
                   startClosed, process, endTime, userStopped, procs, pubs,
                   watchedServices, deathWatcherCancels, bus, crashed, ncmds, rogue>>
    /\ UNCHANGED <<outVars, regVars, fifoVars, ownVars, exitVars, shutVars, pickVars, cleanVars, listVars, tailVars, infoVars, busVars, cmpVars, lockVars>>

\* service.go:391-397 s.userStopped = true under the state lock; return nil
StopMark(t) ==
    /\ ~crashed
    /\ thr[t].pc = "StopMark"
    /\ ~stateLocked
    /\ userStopped' = TRUE
    /\ StopReturn(t, "ok")
    /\ UNCHANGED <<conf, registered, stateLocked, exitChan, startChan, exitClosed,
                   startClosed, process, endTime, procs, pubs,
                   watchedServices, deathWatcherCancels, bus, crashed, ncmds, rogue>>
    /\ UNCHANGED <<outVars, regVars, fifoVars, ownVars, exitVars, shutVars, pickVars, cleanVars, listVars, tailVars, infoVars, busVars, cmpVars, lockVars>>

\* Server.Stop (part_023:26-55) up to its call of Service.Stop: look the
\* service up and removeServiceFromRestartWatch (server.go:302-313)
CmdStop(c) ==
    /\ ~crashed
    /\ thr[c].pc = "idle"
    /\ ncmds < MaxCmds
    /\ ~servicesLocked
    /\ registered
    /\ ncmds' = ncmds + 1
    /\ LET th == IF conf.RestartOnExit THEN CancelWatcher(thr, watchedServices) ELSE thr IN
         thr' = [th EXCEPT ![c] = [Idle EXCEPT !.op = "Stop", !.pc = "Stop",
                                    !.raced = \E d \in Cmds : StartInProgress(d)]]
    /\ watchedServices' = IF conf.RestartOnExit THEN "none" ELSE watchedServices
    /\ UNCHANGED <<conf, registered, servicesLocked, stateLocked, exitChan, startChan,
                   exitClosed, startClosed, process, endTime, userStopped, procs, pubs,
                   deathWatcherCancels, bus, crashed, quiet, rogue>>
    /\ UNCHANGED <<outVars, regVars, fifoVars, ownVars, exitVars, shutVars, pickVars, cleanVars, listVars, tailVars, infoVars, busVars, cmpVars, lockVars>>

(***************************************************************************)
(* The child process and its goroutines: watchForExit (service.go:534-564) *)
(* and sendPeriodicUpdates (517-530).                                      *)
(***************************************************************************)
\* the child exits, both outputs reach their end and cmd.Wait returns (538-542)
ProcExit(k) ==
    /\ ~crashed
    /\ procs[k] = "alive"
    /\ procs' = [procs EXCEPT ![k] = "exited"]
    /\ UNCHANGED <<conf, registered, servicesLocked, stateLocked, exitChan, startChan,
                   exitClosed, startClosed, process, endTime, userStopped, pubs, thr,
                   watchedServices, deathWatcherCancels, bus, crashed, ncmds, quiet, rogue>>
    /\ UNCHANGED <<outVars, regVars, fifoVars, ownVars, exitVars, shutVars, pickVars, cleanVars, listVars, tailVars, infoVars, busVars, cmpVars, lockVars>>

\* service.go:553-560: lock, set endTime and state, make a new startChan
ExitLock(k) ==
    /\ ~crashed
    /\ procs[k] = "exited"
    /\ ~stateLocked
    /\ stateLocked' = TRUE
    /\ endTime' = TRUE
    /\ startChan' = k
    /\ procs' = [procs EXCEPT ![k] = "closing"]
    /\ UNCHANGED <<conf, registered, servicesLocked, exitChan, exitClosed, startClosed,
                   process, userStopped, pubs, thr, watchedServices,
                   deathWatcherCancels, bus, crashed, ncmds, quiet, rogue>>
    /\ UNCHANGED <<outVars, regVars, fifoVars, ownVars, exitVars, shutVars, pickVars, cleanVars, listVars, tailVars, infoVars, busVars, cmpVars, lockVars>>

\* service.go:563 close(s.exitChan) and the deferred unlock; closing a
\* closed channel panics in this goroutine
ExitClose(k) ==
    /\ ~crashed
    /\ procs[k] = "closing"
    /\ stateLocked' = FALSE
    /\ procs' = [procs EXCEPT ![k] = "closed"]
    /\ IF exitChan \in exitClosed
       THEN crashed' = TRUE /\ UNCHANGED exitClosed
       ELSE exitClosed' = CloseChan(exitClosed, exitChan) /\ UNCHANGED crashed
    /\ UNCHANGED <<conf, registered, servicesLocked, exitChan, startChan, startClosed,
                   process, endTime, userStopped, pubs, thr, watchedServices,
                   deathWatcherCancels, bus, ncmds, quiet, rogue>>
    /\ UNCHANGED <<outVars, regVars, fifoVars, ownVars, exitVars, shutVars, pickVars, cleanVars, listVars, tailVars, infoVars, busVars, cmpVars, lockVars>>

\* service.go:546-551: the deferred update, after the lock is released
ExitUpdate(k) ==
    /\ ~crashed
    /\ procs[k] = "closed"
    /\ ~stateLocked
    /\ bus' = TrySend(Info)
    /\ procs' = [procs EXCEPT ![k] = "done"]
    /\ UNCHANGED <<conf, registered, servicesLocked, stateLocked, exitChan, startChan,
                   exitClosed, startClosed, process, endTime, userStopped, pubs, thr,
                   watchedServices, deathWatcherCancels, crashed, ncmds, quiet, rogue>>
    /\ UNCHANGED <<outVars, regVars, fifoVars, ownVars, exitVars, shutVars, pickVars, cleanVars, listVars, tailVars, infoVars, busVars, cmpVars, lockVars>>

\* service.go:523-527 the tick of the publisher that Start k launched
PeriodicUpdate(k) ==
    /\ ~crashed
    /\ k \in pubs
    /\ ~stateLocked
    /\ bus.st = "recv"
    /\ bus' = TrySend(Info)
    /\ UNCHANGED <<conf, registered, servicesLocked, stateLocked, exitChan, startChan,
                   exitClosed, startClosed, process, endTime, userStopped, procs, pubs,
                   thr, watchedServices, deathWatcherCancels, crashed, ncmds, quiet, rogue>>
    /\ UNCHANGED <<outVars, regVars, fifoVars, ownVars, exitVars, shutVars, pickVars, cleanVars, listVars, tailVars, infoVars, busVars, cmpVars, lockVars>>

\* service.go:521-522 case <-s.exitChan: return
PeriodicEnd(k) ==
    /\ ~crashed
    /\ k \in pubs
    /\ ~Running
    /\ pubs' = pubs \ {k}
    /\ UNCHANGED <<conf, registered, servicesLocked, stateLocked, exitChan, startChan,
                   exitClosed, startClosed, process, endTime, userStopped, procs, thr,
                   watchedServices, deathWatcherCancels, bus, crashed, ncmds, quiet, rogue>>
    /\ UNCHANGED <<outVars, regVars, fifoVars, ownVars, exitVars, shutVars, pickVars, cleanVars, listVars, tailVars, infoVars, busVars, cmpVars, lockVars>>

(***************************************************************************)
(* The restart watcher goroutine (server.go:261-299)                       *)
(***************************************************************************)
\* pauseTime *= 2 without the cap
NextPauseUncapped(p) == 2 * p

\* pauseTime *= 2, capped at maxRestartPause (server.go:285-288)
NextPause(p) == IF 2 * p > maxRestartPause THEN maxRestartPause ELSE 2 * p

\* server.go:271-276 case <-time.After(maxRestartPause): reset the pause
\* and wait again.  The timer is made when the select is entered, so it
\* fires only if the exit channel read there has stayed open since.
WatchOuterReset(w) ==
    /\ ~crashed
    /\ w \in Watchers
    /\ thr[w].pc = "outer"
    /\ thr[w].ch \notin exitClosed
    /\ thr' = [thr EXCEPT ![w].pause = minRestartPause, ![w].ch = exitChan]
    /\ UNCHANGED <<conf, registered, servicesLocked, stateLocked, exitChan, startChan,
                   exitClosed, startClosed, process, endTime, userStopped, procs, pubs,
                   watchedServices, deathWatcherCancels, bus, crashed, ncmds, quiet, rogue>>
    /\ UNCHANGED <<outVars, regVars, fifoVars, ownVars, exitVars, shutVars, pickVars, cleanVars, listVars, tailVars, infoVars, busVars, cmpVars, lockVars>>

\* server.go:277-279 case <-srvc.GetExitChan(): enter the pause, reading
\* the start channel to wait on
WatchOuterExit(w) ==
    /\ ~crashed
    /\ w \in Watchers
    /\ thr[w].pc = "outer"
    /\ thr[w].ch \in exitClosed
    /\ thr' = [thr EXCEPT ![w].pc = "inner", ![w].ch = startChan]
    /\ UNCHANGED <<conf, registered, servicesLocked, stateLocked, exitChan, startChan,
                   exitClosed, startClosed, process, endTime, userStopped, procs, pubs,
                   watchedServices, deathWatcherCancels, bus, crashed, ncmds, quiet, rogue>>
    /\ UNCHANGED <<outVars, regVars, fifoVars, ownVars, exitVars, shutVars, pickVars, cleanVars, listVars, tailVars, infoVars, busVars, cmpVars, lockVars>>

\* server.go:282-283 case <-srvc.GetStartChan(): started during the pause
WatchInnerStarted(w) ==
    /\ ~crashed
    /\ w \in Watchers
    /\ thr[w].pc = "inner"
    /\ thr[w].ch \in startClosed
    /\ thr' = [thr EXCEPT ![w].pc = "outer", ![w].ch = exitChan]
    /\ UNCHANGED <<conf, registered, servicesLocked, stateLocked, exitChan, startChan,
                   exitClosed, startClosed, process, endTime, userStopped, procs, pubs,
                   watchedServices, deathWatcherCancels, bus, crashed, ncmds, quiet, rogue>>
    /\ UNCHANGED <<outVars, regVars, fifoVars, ownVars, exitVars, shutVars, pickVars, cleanVars, listVars, tailVars, infoVars, busVars, cmpVars, lockVars>>

\* server.go:284-290 case <-time.After(pauseTime): double the pause and
\* call Service.Start, which returns at once if the service is running
\* (service.go:292-294)
WatchInnerPause(w) ==
    /\ ~crashed
    /\ w \in Watchers
    /\ thr[w].pc = "inner"
    /\ thr' = [thr EXCEPT ![w] =
                 IF Running
                 THEN [thr[w] EXCEPT !.pc = "outer", !.pause = NextPause(@),
                                     !.ch = exitChan]
                 ELSE [thr[w] EXCEPT !.pc = "StartLock", !.pause = NextPause(@)]]
    /\ UNCHANGED <<conf, registered, servicesLocked, stateLocked, exitChan, startChan,
                   exitClosed, startClosed, process, endTime, userStopped, procs, pubs,
                   watchedServices, deathWatcherCancels, bus, crashed, ncmds, quiet, rogue>>
    /\ UNCHANGED <<outVars, regVars, fifoVars, ownVars, exitVars, shutVars, pickVars, cleanVars, listVars, tailVars, infoVars, busVars, cmpVars, lockVars>>

(***************************************************************************)
(* The watchServices goroutine (server.go:324-370) and the death watchers  *)
(* it launches, which call removeService (server.go:204-225).              *)
(***************************************************************************)
\* server.go:351 !info.Dead && !info.Running && !info.EndTime.IsZero()
Exited(info) == ~info.Dead /\ ~info.Running /\ info.EndTime

\* server.go:344-348 close(cancel): a death watcher still in its select returns
CancelDeathWatch(th, r) ==
    IF r # "none" /\ th[r].pc = "dwWait" THEN [th EXCEPT ![r] = Idle] ELSE th

\* server.go:333-368: one Info taken from updatesIn.  info.Temp reads the
\* service's configuration through the pointer the Info carries.
BusHandle ==
    /\ ~crashed
    /\ bus.st = "busy"
    /\ bus' = [st |-> "recv", info |-> NoInfo]
    /\ IF conf.Temp
       THEN LET th == CancelDeathWatch(thr, deathWatcherCancels) IN
            IF Exited(bus.info)
            THEN \E r \in {FreeOf(th, <<"r1", "r2">>)} :
                   /\ r # "none"
                   /\ thr' = [th EXCEPT ![r] = [Idle EXCEPT !.pc = "dwWait"]]
                   /\ deathWatcherCancels' = r
            ELSE /\ thr' = th
                 /\ deathWatcherCancels' = "none"
       ELSE UNCHANGED <<thr, deathWatcherCancels>>
    /\ UNCHANGED <<conf, registered, servicesLocked, stateLocked, exitChan, startChan,
                   exitClosed, startClosed, process, endTime, userStopped, procs, pubs,
                   watchedServices, crashed, ncmds, quiet, rogue>>
    /\ UNCHANGED <<outVars, regVars, fifoVars, ownVars, exitVars, shutVars, pickVars, cleanVars, listVars, tailVars, infoVars, busVars, cmpVars, lockVars>>

\* server.go:360-362 case <-time.After(cleanAfter): s.removeService(name)
DeathTimeout(r) ==
    /\ ~crashed
    /\ r \in Reapers
    /\ thr[r].pc = "dwWait"
    /\ thr' = [thr EXCEPT ![r].pc = "Remove"]
    /\ UNCHANGED <<conf, registered, servicesLocked, stateLocked, exitChan, startChan,
                   exitClosed, startClosed, process, endTime, userStopped, procs, pubs,
                   watchedServices, deathWatcherCancels, bus, crashed, ncmds, quiet, rogue>>
    /\ UNCHANGED <<outVars, regVars, fifoVars, ownVars, exitVars, shutVars, pickVars, cleanVars, listVars, tailVars, infoVars, busVars, cmpVars, lockVars>>

\* server.go:205-213: take the registry lock, look the service up, call
\* its Stop
Remove(r) ==
    /\ ~crashed
    /\ thr[r].pc = "Remove"
    /\ ~servicesLocked
    /\ IF registered
       THEN /\ servicesLocked' = TRUE
            /\ thr' = [thr EXCEPT ![r].pc = "Stop", ![r].op = "Stop"]
       ELSE /\ thr' = [thr EXCEPT ![r] = Idle]
            /\ UNCHANGED servicesLocked
    /\ UNCHANGED <<conf, registered, stateLocked, exitChan, startChan,
                   exitClosed, startClosed, process, endTime, userStopped, procs, pubs,
                   watchedServices, deathWatcherCancels, bus, crashed, ncmds, quiet, rogue>>
    /\ UNCHANGED <<outVars, regVars, fifoVars, ownVars, exitVars, shutVars, pickVars, cleanVars, listVars, tailVars, infoVars, busVars, cmpVars, lockVars>>

\* server.go:217-224: delete the entry and hand the dead Info to the
\* watchServices goroutine (a blocking send), then unlock
RemoveFinish(r) ==
    /\ ~crashed
    /\ thr[r].pc = "RemoveFinish"
    /\ ~stateLocked
    /\ bus.st = "recv"
    /\ registered' = FALSE
    /\ bus' = [st |-> "busy", info |-> [Info EXCEPT !.Dead = TRUE]]
    /\ servicesLocked' = FALSE
    /\ thr' = [thr EXCEPT ![r] = Idle]
    /\ UNCHANGED <<conf, stateLocked, exitChan, startChan,
                   exitClosed, startClosed, process, endTime, userStopped, procs, pubs,
                   watchedServices, deathWatcherCancels, crashed, ncmds, quiet, rogue>>
    /\ UNCHANGED <<outVars, regVars, fifoVars, ownVars, exitVars, shutVars, pickVars, cleanVars, listVars, tailVars, infoVars, busVars, cmpVars, lockVars>>

\* A service as service.New (service.go:233-247) and addService leave it:
\* registered, never started, exitChan closed and startChan open
InitSvc ==
    /\ conf \in {[RestartOnExit |-> TRUE, Temp |-> FALSE],
                 [RestartOnExit |-> FALSE, Temp |-> TRUE]}
    /\ registered = TRUE
    /\ servicesLocked = FALSE
    /\ stateLocked = FALSE
    /\ exitChan = 0
    /\ startChan = 0
    /\ exitClosed = {0}
    /\ startClosed = {}
    /\ process = 0
    /\ endTime = FALSE
    /\ userStopped = FALSE
    /\ procs = [k \in 1 .. MaxStarts |-> "none"]
    /\ pubs = {}
    /\ thr = [t \in Threads |-> Idle]
    /\ watchedServices = "none"
    /\ deathWatcherCancels = "none"
    /\ bus = [st |-> "recv", info |-> NoInfo]
    /\ crashed = FALSE
    /\ ncmds = 0
    /\ quiet = FALSE
    /\ rogue = FALSE

NextSvc ==
    \/ \E c \in Cmds : CmdStart(c)
    \/ \E t \in Threads, ok \in BOOLEAN : StartLock(t, ok)
    \/ \E t \in Threads : StartClose(t)
    \/ \E t \in Threads : StartUpdate(t)
    \/ \E c \in Cmds : CmdStartWatch(c)
    \/ \E c \in Cmds : CmdStop(c)
    \/ \E t \in Threads : StopCheck(t)
    \/ \E t \in Threads, reaped \in BOOLEAN : StopSignal(t, reaped)
    \/ \E t \in Threads : StopExit(t)
    \/ \E t \in Threads : StopTimeout(t)
    \/ \E t \in Threads : StopMark(t)
    \/ \E k \in 1 .. MaxStarts : ProcExit(k)
    \/ \E k \in 1 .. MaxStarts : ExitLock(k)
    \/ \E k \in 1 .. MaxStarts : ExitClose(k)
    \/ \E k \in 1 .. MaxStarts : ExitUpdate(k)
    \/ \E k \in 1 .. MaxStarts : PeriodicUpdate(k)
    \/ \E k \in 1 .. MaxStarts : PeriodicEnd(k)
    \/ \E w \in Watchers : WatchOuterReset(w)
    \/ \E w \in Watchers : WatchOuterExit(w)
    \/ \E w \in Watchers : WatchInnerStarted(w)
    \/ \E w \in Watchers : WatchInnerPause(w)
    \/ BusHandle
    \/ \E r \in Reapers : DeathTimeout(r)
    \/ \E r \in Reapers : Remove(r)
    \/ \E r \in Reapers : RemoveFinish(r)


InitOut ==
    /\ lines = <<>>
    /\ indexOffset = 0
    /\ pid = 0
    /\ readers = [r \in ReaderIds |-> NoReader]
    /\ pidWatch = [k \in 1 .. MaxFollows |-> "none"]
    /\ follows = 0
    /\ captured = 0
    /\ tail = [prev |-> NoCall, cur |-> NoCall]

NextOut ==
    \/ followNewProcess
    \/ \E r \in ReaderIds, len \in 1 .. MaxLineLen : watchOutputLine(r, len)
    \/ \E r \in ReaderIds : watchOutputEnd(r)
    \/ \E r \in ReaderIds : watchOutputCancelled(r)
    \/ \E k \in 1 .. MaxFollows : watchPid(k)
    \/ \E index \in -MaxBack .. MaxAsk, p \in Pids, max \in 0 .. MaxLines : TailGet(index, p, max)
    \/ \E p \in Pids, max \in 0 .. MaxLines : TailGetNext(p, max)

(***************************************************************************)
(* The registry of services (server.go) and LoadServices                   *)
(* (cmd_load_services.go).  Here a service instance is kept as its Conf    *)
(* and whether its child runs; a Start, a Stop and an exit of the child    *)
(* are one step each.                                                      *)
(***************************************************************************)
Names == <<"a", "a-1">>

NameSet == {Names[k] : k \in 1 .. Len(Names)}

MaxInsts == 2

MaxPrograms == 2

CleanTempServicesAfter == 3600

\* config.Service (config/service.go:17-35); Name is the key it is kept under,
\* Program stands for every field that is not safe to change on a running service
ConfOf(program, autoStart, restartOnExit, temp, cleanAfter) ==
    [Program |-> program, AutoStart |-> autoStart, RestartOnExit |-> restartOnExit,
     Temp |-> temp, CleanAfter |-> cleanAfter]

NoConf == ConfOf(0, FALSE, FALSE, FALSE, 0)

\* the configs a service file can list for a name: a program, alone or with
\* auto-start and restart-on-exit both set
FileConfs ==
    {ConfOf(p, FALSE, FALSE, FALSE, 0) : p \in 1 .. MaxPrograms}
        \cup {ConfOf(1, TRUE, TRUE, FALSE, 0)}

\* Service.Sanitize (config/service.go:39-62): the default of CleanAfter
Sanitize(c) ==
    IF c.Temp /\ c.CleanAfter = 0 THEN [c EXCEPT !.CleanAfter = CleanTempServicesAfter]
    ELSE IF ~c.Temp THEN [c EXCEPT !.CleanAfter = 0]
    ELSE c

\* the config Server.Run makes (cmd_run.go:176-188) when no CleanAfter is asked for
RunConf == Sanitize(ConfOf(1, FALSE, FALSE, TRUE, 0))

\* a comparison of two configs that takes every field for a safe one
EqualIgnoringAllFields(s, s2) == TRUE

\* a []string: nil, or its elements (none for an empty slice that is not nil)
NilArgs == [nil |-> TRUE, elems |-> <<>>]

\* the copy EqualIgnoringSafeFields makes of s2 by a gob Encode and Decode
\* (config/service.go:73-81): gob sends no field that is zero and no slice
\* of length zero, so an empty Args comes back nil.  A config kept without
\* its Args (Program standing for it) is copied as it is.
GobCopy(c) ==
    IF "Args" \in DOMAIN c THEN [c EXCEPT !.Args = IF c.Args.elems = <<>> THEN NilArgs ELSE c.Args]
    ELSE c

\* Service.EqualIgnoringSafeFields (config/service.go:66-90); reflect.DeepEqual
\* tells a nil slice from an empty one
EqualIgnoringSafeFields(s, s2) ==
    s = [GobCopy(s2) EXCEPT !.AutoStart = s.AutoStart, !.RestartOnExit = s.RestartOnExit,
                            !.Temp = s.Temp, !.CleanAfter = s.CleanAfter]

\* service.New (service.go:233-247): not running, never ended
New(name, c) == [Name |-> name, Conf |-> c, running |-> FALSE, ended |-> FALSE]

\* Service.Info (service.go:249-288) of instance i among the instances is
InfoOf(is, i) ==
    [Name |-> is[i].Name, Inst |-> i, Running |-> is[i].running,
     Temp |-> is[i].Conf.Temp, Dead |-> FALSE, Ended |-> is[i].ended]

\* watchServices (server.go:332-368): what one Info does to the death watches
DeathWatch(rp, info) ==
    IF ~info.Temp THEN rp
    ELSE IF ~info.Dead /\ ~info.Running /\ info.Ended THEN rp \cup {info.Name}
    ELSE rp \ {info.Name}

RECURSIVE DeathWatches(_, _)
DeathWatches(rp, infos) ==
    IF infos = <<>> THEN rp
    ELSE DeathWatches(DeathWatch(rp, Head(infos)), Tail(infos))

\* Service.Start (service.go:291-369) on instance i: the instances afterwards
Started(is, i) == [is EXCEPT ![i].running = TRUE]

\* the exit of the child of instance i (watchForExit, service.go:534-564)
Ended(is, i) == [is EXCEPT ![i].running = FALSE, ![i].ended = TRUE]

\* getService (server.go:156-161)
getService(name) == services[name]


\* the variables of the lifecycle and output models, which the steps of the
\* registry leave alone
otherVars == <<svcVars, outVars, fifoVars, ownVars, exitVars, shutVars, pickVars, cleanVars, listVars, tailVars, infoVars, busVars, cmpVars, lockVars>>

\* addService (server.go:181-186) refusing whenever the name is present
AddRefusedWhenPresent(name, replace) == services[name] # 0

\* addService (server.go:181-186): the two refusals
AddRefused(name, replace) ==
    LET current == services[name] IN
    \/ current # 0 /\ ~replace
    \/ current # 0 /\ insts[current].running

\* addService (server.go:177-202) of a new instance made from config c
addService(name, c, replace) ==
    IF AddRefused(name, replace)
    THEN /\ pub' = <<>>
         /\ UNCHANGED <<services, insts, autoStarts, reap>>
    ELSE LET is == Append(insts, New(name, c))
             i == Len(is)
         IN  /\ Len(insts) < MaxInsts
             /\ insts' = is
             /\ services' = [services EXCEPT ![name] = i]
             /\ pub' = <<InfoOf(is, i)>>
             /\ reap' = DeathWatch(reap, InfoOf(is, i))
             /\ autoStarts' = IF c.AutoStart THEN autoStarts \cup {name} ELSE autoStarts

\* removeService (server.go:204-225), the death watches being rp when it is
\* called.  srvc.Stop() ends the child; the Info of that exit is sent by
\* watchForExit, a goroutine of its own, before or after the Dead one.
removeService(name, rp) ==
    LET srvc == services[name] IN
    IF srvc = 0
    THEN /\ pub' = <<>>
         /\ reap' = rp
         /\ UNCHANGED <<services, insts>>
    ELSE LET is == IF insts[srvc].running THEN Ended(insts, srvc) ELSE insts
             dead == [InfoOf(is, srvc) EXCEPT !.Dead = TRUE]
         IN  /\ insts' = is
             /\ services' = [services EXCEPT ![name] = 0]
             /\ \E exitFirst \in BOOLEAN :
                    pub' = IF ~insts[srvc].running THEN <<dead>>
                           ELSE IF exitFirst THEN <<InfoOf(is, srvc), dead>>
                           ELSE <<dead, InfoOf(is, srvc)>>
             /\ reap' = DeathWatches(rp, pub')

\* changeServicePermanence (server.go:227-245): the instances afterwards
changeServicePermanence(name, temp, cleanAfter) ==
    LET srvc == services[name] IN
    IF srvc = 0 THEN insts
    ELSE IF temp THEN [insts EXCEPT ![srvc].Conf.Temp = TRUE, ![srvc].Conf.CleanAfter = cleanAfter]
    ELSE [insts EXCEPT ![srvc].Conf.Temp = FALSE, ![srvc].Conf.CleanAfter = 0]

\* addServiceToRestartWatch (server.go:247-300): the watcher goroutine holds
\* the instance it was given
addServiceToRestartWatch(w, srvc) == [w EXCEPT ![insts[srvc].Name] = srvc]

\* removeServiceFromRestartWatch (server.go:302-313)
removeServiceFromRestartWatch(w, name) == [w EXCEPT ![name] = 0]

\* Server.Start (cmd_start.go:55-82)
ServerStart(name) ==
    LET serv == getService(name) IN
    IF serv = 0 \/ insts[serv].running
    THEN /\ pub' = <<>>
         /\ UNCHANGED <<insts, watch, reap>>
    ELSE /\ insts' = Started(insts, serv)
         /\ pub' = <<>>
         /\ reap' = DeathWatch(reap, InfoOf(insts', serv))
         /\ watch' = IF insts[serv].Conf.RestartOnExit
                     THEN addServiceToRestartWatch(watch, serv)
                     ELSE watch

\* a Start command of a client
StartCmd(name) ==
    /\ ServerStart(name)
    /\ UNCHANGED <<load, services, autoStarts, file, run, otherVars>>

\* the goroutine addService launches for an AutoStart service (server.go:193-199)
AutoStart(name) ==
    /\ name \in autoStarts
    /\ autoStarts' = autoStarts \ {name}
    /\ ServerStart(name)
    /\ UNCHANGED <<load, services, file, run, otherVars>>

\* Server.Stop (cmd_stop.go:26-55)
StopCmd(name) ==
    LET serv == getService(name) IN
    /\ serv # 0
    /\ watch' = IF insts[serv].Conf.RestartOnExit
                THEN removeServiceFromRestartWatch(watch, name)
                ELSE watch
    /\ insts' = IF insts[serv].running THEN Ended(insts, serv) ELSE insts
    /\ pub' = <<>>
    /\ reap' = IF insts[serv].running THEN DeathWatch(reap, InfoOf(insts', serv)) ELSE reap
    /\ UNCHANGED <<load, services, autoStarts, file, run, otherVars>>

\* the child of instance i exits by itself (watchForExit, service.go:534-564)
ChildExit(i) ==
    /\ i \in 1 .. Len(insts)
    /\ insts[i].running
    /\ insts' = Ended(insts, i)
    /\ pub' = <<>>
    /\ reap' = DeathWatch(reap, InfoOf(insts', i))
    /\ UNCHANGED <<load, services, watch, autoStarts, file, run, otherVars>>

\* the restart watcher of a name finds its instance exited and, after its
\* pause, starts it again (server.go:277-295)
WatcherRestart(name) ==
    LET srvc == watch[name] IN
    /\ srvc # 0
    /\ ~insts[srvc].running
    /\ insts' = Started(insts, srvc)
    /\ pub' = <<>>
    /\ reap' = DeathWatch(reap, InfoOf(insts', srvc))
    /\ UNCHANGED <<load, services, watch, autoStarts, file, run, otherVars>>

\* a death watcher's timeout: removeService by name (server.go:357-364)
DeathWatchTimeout(name) ==
    /\ name \in reap
    /\ removeService(name, reap \ {name})
    /\ UNCHANGED <<load, watch, autoStarts, file, run, otherVars>>

\* Server.Run (cmd_run.go:143-211) with the name given, up to addService
RunAdd(name) ==
    /\ run = 0
    /\ addService(name, RunConf, FALSE)
    /\ run' = IF AddRefused(name, FALSE) THEN 0 ELSE Len(insts')
    /\ UNCHANGED <<load, watch, file, otherVars>>

\* Server.Run (cmd_run.go:198-210): the extra Info, then Start of the instance
RunStart ==
    /\ run # 0
    /\ run' = 0
    /\ insts' = Started(insts, run)
    /\ pub' = <<>>
    /\ reap' = DeathWatches(reap, IF insts[run].running THEN <<InfoOf(insts, run)>>
                                  ELSE <<InfoOf(insts, run), InfoOf(insts', run)>>)
    /\ UNCHANGED <<load, services, watch, autoStarts, file, otherVars>>

\* the user edits the service file: the entry of a name is set or deleted
EditFile(name, c) ==
    /\ load.pc \in {"idle", "done"}
    /\ c # file[name]
    /\ file' = [file EXCEPT ![name] = c]
    /\ pub' = <<>>
    /\ UNCHANGED <<load, services, insts, watch, reap, autoStarts, run, otherVars>>

\* the orders in which the members of a set can be listed
Orders(S) ==
    {s \in [1 .. Cardinality(S) -> S] : \A x \in S : \E k \in 1 .. Cardinality(S) : s[k] = x}

\* no LoadServices call was made yet
NoLoad ==
    [pc |-> "idle", todo |-> <<>>, branch |-> "",
     list |-> <<>>, new |-> {}, updated |-> {}, deprecated |-> {}, removed |-> {},
     err |-> "", again |-> FALSE]

\* LoadServices returns: its locals are gone, its reply and error are kept;
\* err is "" for nil and else names the error returned
Return(l, err) ==
    [l EXCEPT !.pc = "done", !.err = err, !.todo = <<>>,
              !.branch = "", !.list = <<>>]

\* the configs LoadServiceFile (config/service.go:94-118) gave the call in
\* progress: the file is not edited before the call returns
confs == file

\* LoadServices (cmd_load_services.go:27-43): the file is read.  again says
\* that the call before this one returned without an error.
LoadBegin ==
    /\ load.pc \in {"idle", "done"}
    /\ \E order \in Orders({n \in NameSet : file[n] # NoConf}) :
         load' = [NoLoad EXCEPT !.pc = "entries", !.todo = order,
                                !.again = (load.pc = "done" /\ load.err = "")]
    /\ pub' = <<>>
    /\ UNCHANGED <<services, insts, watch, reap, autoStarts, file, run, otherVars>>

\* a comparison of two configs that looks at the program only
DeepEqualPrograms(c1, c2) == c1.Program = c2.Program

\* reflect.DeepEqual of two configs
DeepEqual(c1, c2) == c1 = c2

\* the branch taken for the next entry of the file (cmd_load_services.go:47,61,63,78,108)
BranchOf(name, c) ==
    LET srvc == getService(name) IN
    IF srvc = 0 THEN "new"
    ELSE IF DeepEqual(insts[srvc].Conf, c) THEN "same"
    ELSE IF ~insts[srvc].running THEN "replace"
    ELSE IF EqualIgnoringSafeFields(insts[srvc].Conf, c) THEN "safe"
    ELSE "unsafe"

\* the safe changes applied to a running instance (cmd_load_services.go:84-99)
SafelyChanged(name, c) ==
    LET srvc == getService(name)
        is == IF insts[srvc].Conf.Temp /\ ~c.Temp
              THEN changeServicePermanence(name, FALSE, 0)
              ELSE insts
    IN  [is EXCEPT ![srvc].Conf.AutoStart = c.AutoStart,
                   ![srvc].Conf.RestartOnExit = c.RestartOnExit]

\* one entry of the file is looked at (cmd_load_services.go:44-110); a new
\* or changed service is added by the next step, LoadAdd
LoadEntry ==
    /\ load.pc = "entries"
    /\ load.todo # <<>>
    /\ LET name == Head(load.todo)
           c == confs[name]
           srvc == getService(name)
           branch == BranchOf(name, c)
       IN  /\ load' = CASE branch \in {"new", "replace"} ->
                            [load EXCEPT !.pc = "add", !.branch = branch]
                        [] branch = "same" -> [load EXCEPT !.todo = Tail(load.todo)]
                        [] branch = "safe" ->
                            IF DeepEqual(SafelyChanged(name, c)[srvc].Conf, c)
                            THEN [load EXCEPT !.todo = Tail(load.todo),
                                              !.updated = load.updated \cup {name}]
                            ELSE Return(load, "Failed to fully apply conf changes")
                        [] OTHER -> Return(load, "Cannot apply these changes to a running service")
           /\ insts' = IF branch = "safe" THEN SafelyChanged(name, c) ELSE insts
           /\ watch' = IF branch = "safe" /\ ~insts[srvc].Conf.RestartOnExit /\ c.RestartOnExit
                       THEN addServiceToRestartWatch(watch, srvc)
                       ELSE IF branch = "safe" /\ insts[srvc].Conf.RestartOnExit /\ ~c.RestartOnExit
                       THEN removeServiceFromRestartWatch(watch, name)
                       ELSE watch
    /\ pub' = <<>>
    /\ UNCHANGED <<services, reap, autoStarts, file, run, otherVars>>

\* the new or changed service is made and added (cmd_load_services.go:50-60, 68-77)
LoadAdd ==
    /\ load.pc = "add"
    /\ LET name == Head(load.todo)
           replace == load.branch = "replace"
       IN  /\ addService(name, confs[name], replace)
           /\ load' = IF AddRefused(name, replace) THEN Return(load, "Failed to add")
                      ELSE IF replace
                      THEN [load EXCEPT !.pc = "entries", !.branch = "", !.todo = Tail(load.todo),
                                        !.updated = load.updated \cup {name}]
                      ELSE [load EXCEPT !.pc = "entries", !.branch = "", !.todo = Tail(load.todo),
                                        !.new = load.new \cup {name}]
    /\ UNCHANGED <<watch, file, run, otherVars>>

\* listServices (server.go:163-175), in the order the map is ranged over
LoadList ==
    /\ load.pc = "entries"
    /\ load.todo = <<>>
    /\ \E order \in Orders({services[n] : n \in NameSet} \ {0}) :
         load' = [load EXCEPT !.pc = "removed", !.list = order]
    /\ pub' = <<>>
    /\ UNCHANGED <<services, insts, watch, reap, autoStarts, file, run, otherVars>>

\* one listed service is looked at (cmd_load_services.go:114-129); one that is
\* not running is removed by the next step, LoadRemove
LoadListed ==
    /\ load.pc = "removed"
    /\ load.list # <<>>
    /\ LET srvc == Head(load.list)
           name == insts[srvc].Name
       IN  IF confs[name] # NoConf
           THEN /\ load' = [load EXCEPT !.list = Tail(load.list)]
                /\ insts' = insts
           ELSE IF ~insts[srvc].running
           THEN /\ load' = [load EXCEPT !.pc = "remove"]
                /\ insts' = insts
           ELSE IF services[name] = 0
           THEN /\ load' = Return(load, "Failed to set as temporary")
                /\ insts' = insts
           ELSE /\ load' = [load EXCEPT !.list = Tail(load.list),
                                        !.deprecated = load.deprecated \cup {name}]
                /\ insts' = changeServicePermanence(name, TRUE, 0)
    /\ pub' = <<>>
    /\ UNCHANGED <<services, watch, reap, autoStarts, file, run, otherVars>>

\* removeService of the name of a listed service that was not running
\* (cmd_load_services.go:119-120); what it returns is not looked at
LoadRemove ==
    /\ load.pc = "remove"
    /\ LET name == insts[Head(load.list)].Name IN
         /\ removeService(name, reap)
         /\ load' = [load EXCEPT !.pc = "removed", !.list = Tail(load.list),
                                 !.removed = load.removed \cup {name}]
    /\ UNCHANGED <<watch, autoStarts, file, run, otherVars>>

\* LoadServices returns nil (cmd_load_services.go:132)
LoadEnd ==
    /\ load.pc = "removed"
    /\ load.list = <<>>
    /\ load' = Return(load, "")
    /\ pub' = <<>>
    /\ UNCHANGED <<services, insts, watch, reap, autoStarts, file, run, otherVars>>

EmptyFile == [n \in NameSet |-> NoConf]

InitReg ==
    /\ services = [n \in NameSet |-> 0]
    /\ insts = <<>>
    /\ watch = [n \in NameSet |-> 0]
    /\ reap = {}
    /\ autoStarts = {}
    /\ file = EmptyFile
    /\ load = NoLoad
    /\ pub = <<>>
    /\ run = 0

\* the steps of one LoadServices call
NextLoad ==
    \/ LoadBegin
    \/ LoadEntry
    \/ LoadAdd
    \/ LoadList
    \/ LoadListed
    \/ LoadRemove
    \/ LoadEnd

\* the name the commands of the clients and the edits of the file are about
Served == {Names[1]}

NextReg ==
    \/ \E name \in Served : StartCmd(name)
    \/ \E name \in Served : AutoStart(name)
    \/ \E name \in Served : StopCmd(name)
    \/ \E i \in 1 .. MaxInsts : ChildExit(i)
    \/ \E name \in Served : WatcherRestart(name)
    \/ \E name \in Served : DeathWatchTimeout(name)
    \/ \E name \in Served : RunAdd(name)
    \/ RunStart
    \/ \E name \in Served, c \in FileConfs \cup {NoConf} : EditFile(name, c)
    \/ LoadBegin
    \/ LoadEntry
    \/ LoadAdd
    \/ LoadList
    \/ LoadListed
    \/ LoadRemove
    \/ LoadEnd

(***************************************************************************)
(* The rendezvous file (server.go:375-419).  A daemon opens it when it is  *)
(* spawned, touches it at every heartbeat, and unlinks it when it shuts    *)
(* down; a daemon that is killed leaves it behind.                         *)
(***************************************************************************)
Daemons == {"A", "B", "C"}

HeartbeatInterval == 10

MaxClock == 40

\* the step of the clock, in seconds
TickSeconds == 5

\* the longest a heartbeat comes after it is due, in seconds
MaxLag == 5

NoFifo == [exists |-> FALSE, modTime |-> 0]

NoDaemon == [st |-> "none", due |-> 0, beats |-> 0, killedAt |-> 0]

\* a file of this age is taken for stale after one heartbeat interval
StaleAfterOneBeat(age) == ~(age < HeartbeatInterval)

\* openFifo (server.go:383): a file of this age is not that of a live server
Stale(age) == ~(age < HeartbeatInterval * 2)

\* time passes; the heartbeat of a live daemon is not later than MaxLag
Tick ==
    /\ now < MaxClock
    /\ \A d \in Daemons : daemon[d].st = "serving" => now + TickSeconds <= daemon[d].due + MaxLag
    /\ now' = now + TickSeconds
    /\ UNCHANGED <<fifo, daemon, svcVars, outVars, regVars, ownVars, exitVars, shutVars, pickVars, cleanVars, listVars, tailVars, infoVars, busVars, cmpVars, lockVars>>

\* a daemon is spawned: openFifo (server.go:375-399), then startHeartbeat
\* (server.go:401-419) when the listener was made
Spawn(d) ==
    /\ daemon[d].st = "none"
    /\ IF fifo.exists /\ ~Stale(now - fifo.modTime)
       THEN /\ daemon' = [daemon EXCEPT ![d].st = "rejected"]
            /\ fifo' = fifo
       ELSE /\ daemon' = [daemon EXCEPT ![d].st = "serving", ![d].due = now + HeartbeatInterval]
            /\ fifo' = [exists |-> TRUE, modTime |-> now]
    /\ UNCHANGED <<now, svcVars, outVars, regVars, ownVars, exitVars, shutVars, pickVars, cleanVars, listVars, tailVars, infoVars, busVars, cmpVars, lockVars>>

\* the heartbeat goroutine (server.go:404-416): os.Chtimes of the path
Heartbeat(d) ==
    /\ daemon[d].st = "serving"
    /\ now >= daemon[d].due
    /\ fifo' = IF fifo.exists THEN [fifo EXCEPT !.modTime = now] ELSE fifo
    /\ daemon' = [daemon EXCEPT ![d].due = now + HeartbeatInterval, ![d].beats = @ + 1]
    /\ UNCHANGED <<now, svcVars, outVars, regVars, ownVars, exitVars, shutVars, pickVars, cleanVars, listVars, tailVars, infoVars, busVars, cmpVars, lockVars>>

\* the daemon is killed with SIGKILL: nothing is cleaned up
Kill(d) ==
    /\ daemon[d].st = "serving"
    /\ daemon' = [daemon EXCEPT ![d].st = "killed", ![d].due = 0, ![d].killedAt = now]
    /\ UNCHANGED <<now, fifo, svcVars, outVars, regVars, ownVars, exitVars, shutVars, pickVars, cleanVars, listVars, tailVars, infoVars, busVars, cmpVars, lockVars>>

\* the daemon shuts down (server.go:130, 77-83): the heartbeat is cancelled
\* and the listener closed, which unlinks the file
Shutdown(d) ==
    /\ daemon[d].st = "serving"
    /\ daemon' = [daemon EXCEPT ![d].st = "exited", ![d].due = 0]
    /\ fifo' = NoFifo
    /\ UNCHANGED <<now, svcVars, outVars, regVars, ownVars, exitVars, shutVars, pickVars, cleanVars, listVars, tailVars, infoVars, busVars, cmpVars, lockVars>>

InitFifo ==
    /\ now = 0
    /\ fifo = NoFifo
    /\ daemon = [d \in Daemons |-> NoDaemon]

NextFifo ==
    \/ Tick
    \/ \E d \in Daemons : Spawn(d)
    \/ \E d \in Daemons : Heartbeat(d)
    \/ \E d \in Daemons : Kill(d)
    \/ \E d \in Daemons : Shutdown(d)

(***************************************************************************)
(* The rendezvous file, step by step: os.Stat, os.Remove and               *)
(* net.ListenUnix of openFifo are three system calls, and a daemon that    *)
(* shuts down cancels its heartbeat first and closes its listener last.    *)
(***************************************************************************)
\* openFifo (server.go:379-385): os.Stat and the test of the age
OpenStat(d) ==
    /\ daemon[d].st = "none"
    /\ daemon' = [daemon EXCEPT ![d].st =
                     IF ~fifo.exists THEN "listen"
                     ELSE IF ~Stale(now - fifo.modTime) THEN "rejected"
                     ELSE "remove"]
    /\ UNCHANGED <<now, fifo, owner, svcVars, outVars, regVars, exitVars, shutVars, pickVars, cleanVars, listVars, tailVars, infoVars, busVars, cmpVars, lockVars>>

\* openFifo (server.go:387-390): os.Remove of the path, whatever file is there
OpenRemove(d) ==
    /\ daemon[d].st = "remove"
    /\ IF fifo.exists
       THEN /\ fifo' = NoFifo
            /\ owner' = "none"
            /\ daemon' = [daemon EXCEPT ![d].st = "listen"]
       ELSE /\ daemon' = [daemon EXCEPT ![d].st = "failed"]
            /\ UNCHANGED <<fifo, owner>>
    /\ UNCHANGED <<now, svcVars, outVars, regVars, exitVars, shutVars, pickVars, cleanVars, listVars, tailVars, infoVars, busVars, cmpVars, lockVars>>

\* openFifo (server.go:393-398): net.ListenUnix binds the path, which fails
\* when a file is there; then startHeartbeat (server.go:401-419)
OpenListen(d) ==
    /\ daemon[d].st = "listen"
    /\ IF fifo.exists
       THEN /\ daemon' = [daemon EXCEPT ![d].st = "failed"]
            /\ UNCHANGED <<fifo, owner>>
       ELSE /\ daemon' = [daemon EXCEPT ![d].st = "serving", ![d].due = now + HeartbeatInterval]
            /\ fifo' = [exists |-> TRUE, modTime |-> now]
            /\ owner' = d
    /\ UNCHANGED <<now, svcVars, outVars, regVars, exitVars, shutVars, pickVars, cleanVars, listVars, tailVars, infoVars, busVars, cmpVars, lockVars>>

\* Init leaves its serve loop (server.go:116-131): the heartbeat is
\* cancelled, the services are being stopped, the listener is still open
ShutdownBegin(d) ==
    /\ daemon[d].st = "serving"
    /\ daemon' = [daemon EXCEPT ![d].st = "stopping", ![d].due = 0]
    /\ UNCHANGED <<now, fifo, owner, svcVars, outVars, regVars, exitVars, shutVars, pickVars, cleanVars, listVars, tailVars, infoVars, busVars, cmpVars, lockVars>>

\* Init returns (server.go:77-83, 153): the deferred listener.Close unlinks
\* the path, whatever file is there
ShutdownClose(d) ==
    /\ daemon[d].st = "stopping"
    /\ daemon' = [daemon EXCEPT ![d].st = "exited"]
    /\ fifo' = NoFifo
    /\ owner' = "none"
    /\ UNCHANGED <<now, svcVars, outVars, regVars, exitVars, shutVars, pickVars, cleanVars, listVars, tailVars, infoVars, busVars, cmpVars, lockVars>>

InitOwn == owner = "none"

NextOwn ==
    \/ Tick
    \/ \E d \in Daemons : OpenStat(d)
    \/ \E d \in Daemons : OpenRemove(d)
    \/ \E d \in Daemons : OpenListen(d)
    \/ \E d \in Daemons : Heartbeat(d)
    \/ \E d \in Daemons : Kill(d)
    \/ \E d \in Daemons : ShutdownBegin(d)
    \/ \E d \in Daemons : ShutdownClose(d)

(***************************************************************************)
(* Exit (cmd_exit.go:11-40) and the serve loop of Init (server.go:116-     *)
(* 131), followed in one daemon, Looper.  s.stop has a buffer of one;      *)
(* AcceptUnix blocks until a connection waits on the daemon's listener.    *)
(***************************************************************************)
Looper == "A"

Exits == {"x1", "x2"}

MaxBacklog == 2

NoServe == [pc |-> "off", stop |-> 0, backlog |-> 0]

\* the listener of daemon d is open: from ListenUnix to the deferred Close
Listening(d) == daemon[d].st \in {"serving", "stopping"}

\* Init enters its serve loop (server.go:115)
LoopStart ==
    /\ daemon[Looper].st = "serving"
    /\ serve.pc = "off"
    /\ serve' = [serve EXCEPT !.pc = "select"]
    /\ UNCHANGED <<exits, svcVars, outVars, regVars, fifoVars, ownVars, shutVars, pickVars, cleanVars, listVars, tailVars, infoVars, busVars, cmpVars, lockVars>>

\* the select of the serve loop (server.go:117-122): stop if one is
\* buffered, else on to AcceptUnix
LoopSelect ==
    /\ daemon[Looper].st = "serving"
    /\ serve.pc = "select"
    /\ serve' = IF serve.stop > 0
                THEN [serve EXCEPT !.pc = "done", !.stop = 0]
                ELSE [serve EXCEPT !.pc = "accept"]
    /\ UNCHANGED <<exits, svcVars, outVars, regVars, fifoVars, ownVars, shutVars, pickVars, cleanVars, listVars, tailVars, infoVars, busVars, cmpVars, lockVars>>

\* AcceptUnix returns a connection, which is served by a goroutine of its
\* own (server.go:123-128)
LoopAccept ==
    /\ daemon[Looper].st = "serving"
    /\ serve.pc = "accept"
    /\ serve.backlog > 0
    /\ serve' = [serve EXCEPT !.pc = "select", !.backlog = @ - 1]
    /\ UNCHANGED <<exits, svcVars, outVars, regVars, fifoVars, ownVars, shutVars, pickVars, cleanVars, listVars, tailVars, infoVars, busVars, cmpVars, lockVars>>

\* the loop is over: Init goes on to its shutdown (server.go:131)
LoopShutdown ==
    /\ serve.pc = "done"
    /\ ShutdownBegin(Looper)

\* Exit (cmd_exit.go:20-24): the send on s.stop, dropped when the buffer is full
ExitSend(x) ==
    /\ daemon[Looper].st = "serving"
    /\ serve.pc # "off"
    /\ exits[x] = "idle"
    /\ exits' = [exits EXCEPT ![x] = "dial"]
    /\ serve' = [serve EXCEPT !.stop = 1]
    /\ UNCHANGED <<svcVars, outVars, regVars, fifoVars, ownVars, shutVars, pickVars, cleanVars, listVars, tailVars, infoVars, busVars, cmpVars, lockVars>>

\* Exit (cmd_exit.go:26-39): DialUnix of s.fifoAddr reaches the listener
\* that made the file now at the path; the connection is closed at once
ExitDial(x) ==
    /\ exits[x] = "dial"
    /\ IF fifo.exists /\ owner # "none" /\ Listening(owner)
       THEN /\ exits' = [exits EXCEPT ![x] = "returned"]
            /\ serve' = IF owner = Looper /\ serve.backlog < MaxBacklog
                        THEN [serve EXCEPT !.backlog = @ + 1]
                        ELSE serve
       ELSE /\ exits' = [exits EXCEPT ![x] = "failed"]
            /\ serve' = serve
    /\ UNCHANGED <<svcVars, outVars, regVars, fifoVars, ownVars, shutVars, pickVars, cleanVars, listVars, tailVars, infoVars, busVars, cmpVars, lockVars>>

\* a client connects to the path
ClientConnect ==
    /\ fifo.exists /\ owner = Looper /\ Listening(Looper)
    /\ serve.backlog < MaxBacklog
    /\ serve' = [serve EXCEPT !.backlog = @ + 1]
    /\ UNCHANGED <<exits, svcVars, outVars, regVars, fifoVars, ownVars, shutVars, pickVars, cleanVars, listVars, tailVars, infoVars, busVars, cmpVars, lockVars>>

InitExit ==
    /\ serve = NoServe
    /\ exits = [x \in Exits |-> "idle"]

NextExit ==
    \/ \E d \in Daemons : OpenStat(d)
    \/ \E d \in Daemons : OpenRemove(d)
    \/ \E d \in Daemons : OpenListen(d)
    \/ LoopStart
    \/ LoopSelect
    \/ LoopAccept
    \/ LoopShutdown
    \/ \E x \in Exits : ExitSend(x)
    \/ \E x \in Exits : ExitDial(x)
    \/ ClientConnect

(***************************************************************************)
(* The shutdown of Init (server.go:133-153): a loop over s.services that   *)
(* starts one goroutine for each running service, then waits for them.     *)
(* The goroutine's function names no parameter: it reads the loop's one    *)
(* variable srvc when it runs (cmd_stop.go:26-55 is what it calls).        *)
(***************************************************************************)
NoShut == [pc |-> "serve", todo |-> {}, srvc |-> 0, gos |-> 0, was |-> {}]

\* the stop request is read (server.go:119-121, 133): the loop is to visit
\* every name of the map
ShutBegin ==
    /\ shut.pc = "serve"
    /\ shut' = [shut EXCEPT !.pc = "loop",
                            !.todo = {n \in NameSet : services[n] # 0},
                            !.was = {i \in 1 .. Len(insts) : insts[i].running /\ services[insts[i].Name] = i}]
    /\ UNCHANGED <<regVars, svcVars, outVars, fifoVars, ownVars, exitVars, pickVars, cleanVars, listVars, tailVars, infoVars, busVars, cmpVars, lockVars>>

\* one turn of the loop (server.go:137-148), in the order the map gives
ShutLoop ==
    /\ shut.pc = "loop"
    /\ \/ /\ shut.todo = {}
          /\ shut' = [shut EXCEPT !.pc = "wait"]
       \/ \E n \in shut.todo :
            shut' = [shut EXCEPT !.todo = @ \ {n},
                                 !.srvc = services[n],
                                 !.gos = IF insts[services[n]].running THEN @ + 1 ELSE @]
    /\ UNCHANGED <<regVars, svcVars, outVars, fifoVars, ownVars, exitVars, pickVars, cleanVars, listVars, tailVars, infoVars, busVars, cmpVars, lockVars>>

\* one goroutine of the loop runs (server.go:140-146): Server.Stop
\* (cmd_stop.go:26-55) of the name of whatever srvc holds by now
ShutGo ==
    LET serv == getService(insts[shut.srvc].Name) IN
    /\ shut.pc \in {"loop", "wait"}
    /\ shut.gos > 0
    /\ shut' = [shut EXCEPT !.gos = @ - 1]
    /\ watch' = IF serv # 0 /\ insts[serv].Conf.RestartOnExit
                THEN removeServiceFromRestartWatch(watch, insts[serv].Name)
                ELSE watch
    /\ insts' = IF serv # 0 /\ insts[serv].running THEN Ended(insts, serv) ELSE insts
    /\ pub' = <<>>
    /\ reap' = IF serv # 0 /\ insts[serv].running THEN DeathWatch(reap, InfoOf(insts', serv)) ELSE reap
    /\ UNCHANGED <<load, services, autoStarts, file, run>>
    /\ UNCHANGED <<svcVars, outVars, fifoVars, ownVars, exitVars, pickVars, cleanVars, listVars, tailVars, infoVars, busVars, cmpVars, lockVars>>

\* wait.Wait is over and Init returns (server.go:149-153)
ShutReturn ==
    /\ shut.pc = "wait"
    /\ shut.gos = 0
    /\ shut' = [shut EXCEPT !.pc = "returned"]
    /\ UNCHANGED <<regVars, svcVars, outVars, fifoVars, ownVars, exitVars, pickVars, cleanVars, listVars, tailVars, infoVars, busVars, cmpVars, lockVars>>

\* the child of a service exits by itself while the daemon shuts down
\* (watchForExit, service.go:534-564)
ShutChildExit ==
    /\ shut.pc # "returned"
    /\ \E i \in 1 .. Len(insts) :
         /\ insts[i].running
         /\ insts' = Ended(insts, i)
         /\ pub' = <<>>
         /\ reap' = DeathWatch(reap, InfoOf(insts', i))
    /\ UNCHANGED <<load, services, watch, autoStarts, file, run>>
    /\ UNCHANGED <<shut, svcVars, outVars, fifoVars, ownVars, exitVars, pickVars, cleanVars, listVars, tailVars, infoVars, busVars, cmpVars, lockVars>>

InitShut == shut = NoShut

NextShut ==
    \/ ShutBegin
    \/ ShutLoop
    \/ ShutGo
    \/ ShutReturn
    \/ ShutChildExit

(***************************************************************************)
(* Server.Run naming the service when the caller gave no name (cmd_run.go: *)
(* 151-173).  Every getService, removeService and addService takes the     *)
(* registry lock for itself, so each is a step.  A path is the sequence of *)
(* its elements.                                                           *)
(***************************************************************************)
Paths == {<<"bin", "a">>, <<"a-1">>}

\* the bound of the suffix loop (cmd_run.go:165)
MaxSuffix == 50

\* filepath.Base
Base(path) == IF path = <<>> THEN "." ELSE path[Len(path)]

\* fmt.Sprintf("%s-%d", prog, i)
Sprintf(prog, i) == prog \o "-" \o ToString(i)

\* getService of a name, which the registry of the model may have no place for
Registered(name) == IF name \in NameSet THEN getService(name) ELSE 0

NoPick == [pc |-> "idle", prog |-> "", i |-> 0, name |-> "", err |-> FALSE]

\* cmd_run.go:151-162 up to the first getService
RunLook(path) ==
    LET prog == Base(path)
        srvc == Registered(prog)
    IN
    /\ pick.pc = "idle"
    /\ run = 0
    /\ pick' = IF srvc = 0
               THEN [NoPick EXCEPT !.pc = "add", !.prog = prog, !.name = prog]
               ELSE IF insts[srvc].Conf.Temp /\ ~insts[srvc].running
               THEN [NoPick EXCEPT !.pc = "remove", !.prog = prog]
               ELSE [NoPick EXCEPT !.pc = "suffix", !.prog = prog, !.i = 1]
    /\ UNCHANGED <<regVars, svcVars, outVars, fifoVars, ownVars, exitVars, shutVars, cleanVars, listVars, tailVars, infoVars, busVars, cmpVars, lockVars>>

\* cmd_run.go:158-161: removeService of the name that was found taken by
\* an ended temporary service
RunRemove ==
    /\ pick.pc = "remove"
    /\ removeService(pick.prog, reap)
    /\ pick' = [pick EXCEPT !.pc = "add", !.name = pick.prog]
    /\ UNCHANGED <<load, watch, autoStarts, file, run>>
    /\ UNCHANGED <<svcVars, outVars, fifoVars, ownVars, exitVars, shutVars, cleanVars, listVars, tailVars, infoVars, busVars, cmpVars, lockVars>>

\* one test of the suffix loop (cmd_run.go:165-167)
RunSuffix ==
    /\ pick.pc = "suffix"
    /\ pick' = IF pick.i <= MaxSuffix /\ Registered(pick.prog) # 0
               THEN [pick EXCEPT !.prog = Sprintf(pick.prog, pick.i), !.i = @ + 1]
               ELSE [pick EXCEPT !.pc = "named"]
    /\ UNCHANGED <<regVars, svcVars, outVars, fifoVars, ownVars, exitVars, shutVars, cleanVars, listVars, tailVars, infoVars, busVars, cmpVars, lockVars>>

\* after the loop (cmd_run.go:168-171)
RunNamed ==
    /\ pick.pc = "named"
    /\ pick' = IF Registered(pick.prog) # 0
               THEN [NoPick EXCEPT !.err = TRUE]
               ELSE [pick EXCEPT !.pc = "add", !.name = pick.prog]
    /\ UNCHANGED <<regVars, svcVars, outVars, fifoVars, ownVars, exitVars, shutVars, cleanVars, listVars, tailVars, infoVars, busVars, cmpVars, lockVars>>

\* cmd_run.go:176-196 with the name settled on: addService, no replacing
RunAddPicked ==
    /\ pick.pc = "add"
    /\ pick.name \in NameSet
    /\ run = 0
    /\ addService(pick.name, RunConf, FALSE)
    /\ run' = IF AddRefused(pick.name, FALSE) THEN 0 ELSE Len(insts')
    /\ pick' = [NoPick EXCEPT !.err = AddRefused(pick.name, FALSE)]
    /\ UNCHANGED <<load, watch, file>>
    /\ UNCHANGED <<svcVars, outVars, fifoVars, ownVars, exitVars, shutVars, cleanVars, listVars, tailVars, infoVars, busVars, cmpVars, lockVars>>

InitPick == pick = NoPick

NextRun ==
    \/ \E path \in Paths : RunLook(path)
    \/ RunRemove
    \/ RunSuffix
    \/ RunNamed
    \/ RunAddPicked
    \/ \E name \in NameSet : RunAdd(name)
    \/ RunStart
    \/ \E name \in NameSet : StartCmd(name)
    \/ \E name \in NameSet : StopCmd(name)
    \/ \E i \in 1 .. MaxInsts : ChildExit(i)

(***************************************************************************)
(* Server.Clean (cmd_clean.go:80-114).  listServices, Info and             *)
(* removeService each take their locks for themselves, so each is a step.  *)
(* Names and patterns are sequences of characters; the pattern character   *)
(* "[" stands for a character class that is never closed.                  *)
(***************************************************************************)
Patterns == {<<>>, <<"a">>, <<"a", "*">>, <<"[">>, <<"a", "[">>}

Ages == {0, 10}

MaxCleanClock == 15

\* the characters of a name
Chars(name) ==
    CASE name = "a" -> <<"a">>
      [] name = "a-1" -> <<"a", "-", "1">>
      [] OTHER -> <<>>

\* the pattern is malformed
BadPattern(p) == \E k \in 1 .. Len(p) : p[k] = "["

\* filepath.Match: the pattern matches all of s
RECURSIVE Matches(_, _)
Matches(p, s) ==
    IF p = <<>> THEN s = <<>>
    ELSE IF Head(p) = "*"
    THEN \E k \in 0 .. Len(s) : Matches(Tail(p), SubSeq(s, k + 1, Len(s)))
    ELSE IF Head(p) = "[" THEN FALSE
    ELSE s # <<>> /\ (Head(p) = "?" \/ Head(p) = Head(s)) /\ Matches(Tail(p), Tail(s))

\* filepath.Match comes to the malformed part of the pattern while matching s
RECURSIVE Reaches(_, _)
Reaches(p, s) ==
    IF p = <<>> THEN FALSE
    ELSE IF Head(p) = "[" THEN TRUE
    ELSE IF Head(p) = "*"
    THEN \E k \in 0 .. Len(s) : Reaches(Tail(p), SubSeq(s, k + 1, Len(s)))
    ELSE s # <<>> /\ (Head(p) = "?" \/ Head(p) = Head(s)) /\ Reaches(Tail(p), Tail(s))

\* filepath.Match(p, s).  A library that returns at the first mismatch
\* (early) reports a malformed pattern only when it comes to the malformed
\* part; a later one reports it always.
Match(p, s, early) ==
    LET bad == IF early THEN Reaches(p, s) ELSE BadPattern(p) IN
    [matched |-> ~bad /\ Matches(p, s), err |-> bad]

\* now.Sub(info.EndTime) >= age (cmd_clean.go:103): the zero EndTime of a
\* service that never ended is further back than any age
OldEnough(t, i, age) == ~insts[i].ended \/ t - endTimes[i] >= age

NoClean ==
    [pc |-> "idle", pattern |-> <<>>, age |-> 0, now |-> 0, early |-> FALSE,
     list |-> <<>>, name |-> "", cleaned |-> {}, err |-> FALSE]

\* cmd_clean.go:88-99: the precheck of the pattern, then listServices
CleanBegin(pattern, age, early) ==
    LET pat == IF pattern = <<>> THEN <<"*">> ELSE pattern IN
    /\ clean.pc = "idle"
    /\ early => BadPattern(pat)
    /\ IF Match(pat, <<>>, early).err
       THEN clean' = [NoClean EXCEPT !.pc = "done", !.err = TRUE]
       ELSE \E l \in Orders({services[n] : n \in {x \in NameSet : services[x] # 0}}) :
              clean' = [NoClean EXCEPT !.pc = "loop", !.pattern = pat, !.age = age,
                                       !.now = now, !.early = early, !.list = l]
    /\ UNCHANGED <<endTimes, regVars, svcVars, outVars, fifoVars, ownVars, exitVars, shutVars, pickVars, listVars, tailVars, infoVars, busVars, cmpVars, lockVars>>

\* cmd_clean.go:99-103: the Info of the next service and the test on it
CleanLook ==
    /\ clean.pc = "loop"
    /\ clean.list # <<>>
    /\ LET srvc == Head(clean.list)
           info == InfoOf(insts, srvc)
           matches == Match(clean.pattern, Chars(info.Name), clean.early).matched
       IN  clean' = IF /\ info.Temp /\ ~info.Running /\ matches
                       /\ (clean.age = 0 \/ OldEnough(clean.now, srvc, clean.age))
                    THEN [clean EXCEPT !.pc = "remove", !.name = info.Name]
                    ELSE [clean EXCEPT !.list = Tail(@)]
    /\ UNCHANGED <<endTimes, regVars, svcVars, outVars, fifoVars, ownVars, exitVars, shutVars, pickVars, listVars, tailVars, infoVars, busVars, cmpVars, lockVars>>

\* cmd_clean.go:104-109: removeService of the name of that Info
CleanRemove ==
    /\ clean.pc = "remove"
    /\ removeService(clean.name, reap)
    /\ clean' = [clean EXCEPT !.pc = "loop", !.list = Tail(@), !.name = "",
                              !.cleaned = @ \cup {Head(clean.list)}]
    /\ endTimes' = [i \in DOMAIN endTimes |->
                       IF i <= Len(insts) /\ insts[i].running /\ ~insts'[i].running
                       THEN now ELSE endTimes[i]]
    /\ UNCHANGED <<load, watch, autoStarts, file, run>>
    /\ UNCHANGED <<svcVars, outVars, fifoVars, ownVars, exitVars, shutVars, pickVars, listVars, tailVars, infoVars, busVars, cmpVars, lockVars>>

\* cmd_clean.go:113: the loop is over; the locals are gone, the reply is kept
CleanEnd ==
    /\ clean.pc = "loop"
    /\ clean.list = <<>>
    /\ clean' = [NoClean EXCEPT !.pc = "done", !.cleaned = clean.cleaned]
    /\ UNCHANGED <<endTimes, regVars, svcVars, outVars, fifoVars, ownVars, exitVars, shutVars, pickVars, listVars, tailVars, infoVars, busVars, cmpVars, lockVars>>

\* the child of an instance exits by itself (watchForExit, service.go:534-564)
CleanChildExit(i) ==
    /\ i \in 1 .. Len(insts)
    /\ insts[i].running
    /\ insts' = Ended(insts, i)
    /\ endTimes' = [endTimes EXCEPT ![i] = now]
    /\ pub' = <<>>
    /\ reap' = DeathWatch(reap, InfoOf(insts', i))
    /\ UNCHANGED <<load, services, watch, autoStarts, file, run>>
    /\ UNCHANGED <<clean, svcVars, outVars, fifoVars, ownVars, exitVars, shutVars, pickVars, listVars, tailVars, infoVars, busVars, cmpVars, lockVars>>

\* time passes, as far as the ages asked for need it
CleanTick ==
    /\ now < MaxCleanClock
    /\ Tick

InitClean ==
    /\ clean = NoClean
    /\ endTimes = [i \in 1 .. MaxInsts |-> 0]

NextClean ==
    \/ \E pattern \in Patterns, age \in Ages, early \in BOOLEAN : CleanBegin(pattern, age, early)
    \/ CleanLook
    \/ CleanRemove
    \/ CleanEnd
    \/ \E i \in 1 .. MaxInsts : CleanChildExit(i)
    \/ \E name \in NameSet : StartCmd(name)
    \/ CleanTick

(***************************************************************************)
(* Server.List (cmd_list.go:55-69) over listServices (server.go:163-175).  *)
(***************************************************************************)
ListArgs == [Running : BOOLEAN, Temp : BOOLEAN]

NoReply == [called |-> FALSE, args |-> [Running |-> FALSE, Temp |-> FALSE], Services |-> <<>>]

\* listServices (server.go:163-175): the registered instances, in the
\* orders the map may give them
listServices == Orders({services[n] : n \in {x \in NameSet : services[x] # 0}})

\* the Infos of the instances of l that List appends (cmd_list.go:63-67)
RECURSIVE Listed(_, _)
Listed(l, args) ==
    IF l = <<>> THEN <<>>
    ELSE IF ~args.Running \/ insts[Head(l)].running
    THEN <<InfoOf(insts, Head(l))>> \o Listed(Tail(l), args)
    ELSE Listed(Tail(l), args)

\* a List call
List(args) ==
    /\ \E l \in listServices :
         reply' = [called |-> TRUE, args |-> args, Services |-> Listed(l, args)]
    /\ reply' # reply
    /\ UNCHANGED <<regVars, svcVars, outVars, fifoVars, ownVars, exitVars, shutVars, pickVars, cleanVars, tailVars, infoVars, busVars, cmpVars, lockVars>>

InitList == reply = NoReply

NextList ==
    \/ \E args \in ListArgs : List(args)
    \/ \E name \in NameSet : StartCmd(name)
    \/ \E i \in 1 .. MaxInsts : ChildExit(i)

(***************************************************************************)
(* Server.Tail (cmd_tail.go:50-79) on the output buffer.  Time is counted  *)
(* in poll intervals from the moment the deadline is set; the goroutine    *)
(* goes on as soon as a case of its select is ready.                       *)
(***************************************************************************)
\* the interval of the poll timer (500 ms, cmd_tail.go:72)
TailPoll == 1

\* the deadline (10 s, cmd_tail.go:67), in poll intervals, scaled down
TailDeadline == 3

\* the name of the service that owns the output buffer
Tailed == Names[1]

NoTail ==
    [pc |-> "idle", follow |-> FALSE, max |-> 0, gets |-> 0, t |-> 0, timer |-> 0,
     seqs |-> <<>>, eof |-> FALSE, nextIndex |-> 0, nextPid |-> 0, err |-> FALSE]

\* a loop that goes on until there are lines, whatever EOF says
WaitingForLines(follow, res) == follow /\ res.lines = <<>>

\* the condition of the loop (cmd_tail.go:68)
Waiting(follow, res) == follow /\ ~res.eof /\ res.lines = <<>>

\* the reply after a Get
Got(t, res) ==
    [t EXCEPT !.gets = @ + 1, !.seqs = Seqs(res.lines), !.eof = res.eof,
              !.nextIndex = res.nextIndex, !.nextPid = res.nextPid,
              !.pc = IF Waiting(t.follow, res) THEN "wait" ELSE "done"]

\* cmd_tail.go:58-68: getService, the first Get, the deadline
TailBegin(name, index, p, max, follow) ==
    /\ tl.pc = "idle"
    /\ tl' = IF getService(name) = 0
             THEN [NoTail EXCEPT !.pc = "done", !.err = TRUE, !.follow = follow]
             ELSE Got([NoTail EXCEPT !.follow = follow, !.max = max],
                      Get(lines, indexOffset, pid, index, p, max))
    /\ UNCHANGED <<outVars, regVars, svcVars, fifoVars, ownVars, exitVars, shutVars, pickVars, cleanVars, listVars, infoVars, busVars, cmpVars, lockVars>>

\* time passes while no case of the select (cmd_tail.go:69-73) is ready
TailSleep ==
    /\ tl.pc = "wait"
    /\ tl.t < TailDeadline
    /\ tl.t < tl.timer + TailPoll
    /\ tl' = [tl EXCEPT !.t = @ + 1]
    /\ UNCHANGED <<outVars, regVars, svcVars, fifoVars, ownVars, exitVars, shutVars, pickVars, cleanVars, listVars, infoVars, busVars, cmpVars, lockVars>>

\* the deadline is chosen (cmd_tail.go:70-71)
TailDeadlineFires ==
    /\ tl.pc = "wait"
    /\ tl.t >= TailDeadline
    /\ tl' = [tl EXCEPT !.pc = "done"]
    /\ UNCHANGED <<outVars, regVars, svcVars, fifoVars, ownVars, exitVars, shutVars, pickVars, cleanVars, listVars, infoVars, busVars, cmpVars, lockVars>>

\* the poll timer is chosen (cmd_tail.go:72-75): the next Get, and the next
\* timer if the loop goes on
TailPollFires ==
    /\ tl.pc = "wait"
    /\ tl.t >= tl.timer + TailPoll
    /\ tl' = Got([tl EXCEPT !.timer = tl.t],
                 Get(lines, indexOffset, pid, tl.nextIndex, tl.nextPid, tl.max))
    /\ UNCHANGED <<outVars, regVars, svcVars, fifoVars, ownVars, exitVars, shutVars, pickVars, cleanVars, listVars, infoVars, busVars, cmpVars, lockVars>>

InitTail == tl = NoTail

NextTail ==
    \/ followNewProcess
    \/ \E r \in ReaderIds, len \in 1 .. MaxLineLen : watchOutputLine(r, len)
    \/ \E r \in ReaderIds : watchOutputEnd(r)
    \/ \E r \in ReaderIds : watchOutputCancelled(r)
    \/ \E k \in 1 .. MaxFollows : watchPid(k)
    \/ \E name \in NameSet, index \in -MaxBack .. MaxAsk, p \in Pids,
          max \in 0 .. MaxLines, follow \in BOOLEAN : TailBegin(name, index, p, max, follow)
    \/ TailSleep
    \/ TailDeadlineFires
    \/ TailPollFires

(***************************************************************************)
(* Info.Succeeded (service.go:249-288) and the fields it is computed       *)
(* from.  s.state is nil or the os.ProcessState of the child that exited:  *)
(* its exit code, or that a signal ended it.                               *)
(***************************************************************************)
MaxExitCode == 1

\* s.state == nil
NoState == [exited |-> FALSE, code |-> 0, signaled |-> FALSE]

ProcessStates ==
    {[exited |-> TRUE, code |-> c, signaled |-> FALSE] : c \in 0 .. MaxExitCode}
        \cup {[exited |-> TRUE, code |-> 0, signaled |-> TRUE]}

\* os.ProcessState.Success
Success(state) == ~state.signaled /\ state.code = 0

\* a verdict that goes by the exit status alone
SucceededByStatus(s) ==
    ~s.running /\ ~s.RestartOnExit /\ s.state # NoState /\ Success(s.state)

\* the Succeeded field of Info (service.go:272)
Succeeded(s) ==
    ~s.running /\ (s.userStopped \/ (~s.RestartOnExit /\ s.state # NoState /\ Success(s.state)))

\* Service.Info (service.go:249-288) is called
TakeInfo ==
    /\ shown' = [taken |-> TRUE, of |-> st, Running |-> st.running, Succeeded |-> Succeeded(st)]
    /\ shown' # shown
    /\ UNCHANGED <<st, outVars, regVars, svcVars, fifoVars, ownVars, exitVars, shutVars, pickVars, cleanVars, listVars, tailVars, busVars, cmpVars, lockVars>>

\* Service.Start (service.go:291-369) clears state and userStopped
StartClears ==
    /\ ~st.running
    /\ st' = [st EXCEPT !.running = TRUE, !.state = NoState, !.userStopped = FALSE]
    /\ UNCHANGED <<shown, outVars, regVars, svcVars, fifoVars, ownVars, exitVars, shutVars, pickVars, cleanVars, listVars, tailVars, busVars, cmpVars, lockVars>>

\* watchForExit (service.go:553-563) sets state and closes exitChan
ExitSets(state) ==
    /\ st.running
    /\ st' = [st EXCEPT !.running = FALSE, !.state = state]
    /\ UNCHANGED <<shown, outVars, regVars, svcVars, fifoVars, ownVars, exitVars, shutVars, pickVars, cleanVars, listVars, tailVars, busVars, cmpVars, lockVars>>

\* Service.Stop (service.go:391-395) has seen exitChan closed and sets
\* userStopped, whatever has become of the service since
StopSets ==
    /\ ~st.userStopped
    /\ st' = [st EXCEPT !.userStopped = TRUE]
    /\ UNCHANGED <<shown, outVars, regVars, svcVars, fifoVars, ownVars, exitVars, shutVars, pickVars, cleanVars, listVars, tailVars, busVars, cmpVars, lockVars>>

\* LoadServices sets Conf.RestartOnExit (cmd_load_services.go:93-99)
LoadSets(b) ==
    /\ st.RestartOnExit # b
    /\ st' = [st EXCEPT !.RestartOnExit = b]
    /\ UNCHANGED <<shown, outVars, regVars, svcVars, fifoVars, ownVars, exitVars, shutVars, pickVars, cleanVars, listVars, tailVars, busVars, cmpVars, lockVars>>

NoShown ==
    [taken |-> FALSE, Running |-> FALSE, Succeeded |-> FALSE,
     of |-> [running |-> FALSE, userStopped |-> FALSE, RestartOnExit |-> FALSE, state |-> NoState]]

\* service.New (service.go:233-247), made from a config without RestartOnExit
InitInfo ==
    /\ st = [running |-> FALSE, userStopped |-> FALSE, RestartOnExit |-> FALSE, state |-> NoState]
    /\ shown = NoShown

NextInfo ==
    \/ TakeInfo
    \/ StartClears
    \/ \E state \in ProcessStates : ExitSets(state)
    \/ StopSets
    \/ \E b \in BOOLEAN : LoadSets(b)

(***************************************************************************)
(* The event bus alone (watchServices, server.go:317-373): the unbuffered  *)
(* updatesIn with the goroutines blocked in a send on it, the goroutine    *)
(* that receives, and the buffered updatesOut with its consumer.           *)
(***************************************************************************)
\* the goroutines that send with a blocking send (addService, removeService)
Senders == {"s1", "s2"}

\* the buffer of updatesOut (100, server.go:322), scaled down
UpdatesCap == 2

\* the Infos of the service named Names[1]
BusInfos ==
    {[Name |-> Names[1], Inst |-> 1, Running |-> r, Temp |-> t, Dead |-> FALSE, Ended |-> e] :
        r \in BOOLEAN, t \in BOOLEAN, e \in BOOLEAN}

NoHub == [st |-> "recv", info |-> [Name |-> "", Inst |-> 0, Running |-> FALSE, Temp |-> FALSE,
                                   Dead |-> FALSE, Ended |-> FALSE]]

\* a forward that waits for room in updatesOut
ForwardWaits(n) == n < UpdatesCap

\* the forward to updatesOut can be done now (server.go:336-339): always,
\* it has a default case
Forward(n) == TRUE

\* addService (server.go:191): sender s blocks in its send of an Info
AddSend(s, info) ==
    /\ \A k \in 1 .. Len(upIn) : upIn[k].by # s
    /\ ~info.Running /\ ~info.Ended
    /\ upIn' = Append(upIn, [by |-> s, info |-> info])
    /\ UNCHANGED <<hub, upOut, tally, outVars, regVars, svcVars, fifoVars, ownVars, exitVars, shutVars, pickVars, cleanVars, listVars, tailVars, infoVars, cmpVars, lockVars>>

\* removeService (server.go:220-222): sender s blocks in its send of a dead Info
RemoveSend(s, info) ==
    /\ \A k \in 1 .. Len(upIn) : upIn[k].by # s
    /\ ~info.Running
    /\ upIn' = Append(upIn, [by |-> s, info |-> [info EXCEPT !.Dead = TRUE]])
    /\ UNCHANGED <<hub, upOut, tally, outVars, regVars, svcVars, fifoVars, ownVars, exitVars, shutVars, pickVars, cleanVars, listVars, tailVars, infoVars, cmpVars, lockVars>>

\* select { case updates <- s.Info(): default: } (service.go:298-301,
\* 524-527, 547-550): received only if the goroutine is at its receive
\* and no sender waits before it
TrySendInfo(info) ==
    /\ hub.st = "recv"
    /\ upIn = <<>>
    /\ hub' = [st |-> "busy", info |-> info]
    /\ UNCHANGED <<upIn, upOut, tally, outVars, regVars, svcVars, fifoVars, ownVars, exitVars, shutVars, pickVars, cleanVars, listVars, tailVars, infoVars, cmpVars, lockVars>>

\* info := <-updatesIn (server.go:333): the send of the first blocked sender completes
BusReceive ==
    /\ hub.st = "recv"
    /\ upIn # <<>>
    /\ hub' = [st |-> "busy", info |-> Head(upIn).info]
    /\ upIn' = Tail(upIn)
    /\ tally' = [tally EXCEPT !.sentAfterDrop = tally.dropped]
    /\ UNCHANGED <<upOut, outVars, regVars, svcVars, fifoVars, ownVars, exitVars, shutVars, pickVars, cleanVars, listVars, tailVars, infoVars, cmpVars, lockVars>>

\* server.go:335-368: the forward to updatesOut, or the drop, then the
\* death watches, and back to the receive
BusForward ==
    /\ hub.st = "busy"
    /\ Forward(upOut)
    /\ upOut' = IF upOut < UpdatesCap THEN upOut + 1 ELSE upOut
    /\ tally' = [tally EXCEPT !.dropped = @ \/ upOut = UpdatesCap]
    /\ reap' = DeathWatch(reap, hub.info)
    /\ hub' = NoHub
    /\ UNCHANGED <<upIn, services, insts, watch, autoStarts, file, load, pub, run>>
    /\ UNCHANGED <<outVars, svcVars, fifoVars, ownVars, exitVars, shutVars, pickVars, cleanVars, listVars, tailVars, infoVars, cmpVars, lockVars>>

\* the consumer of updatesOut takes an Info
Consume ==
    /\ upOut > 0
    /\ upOut' = upOut - 1
    /\ UNCHANGED <<upIn, hub, tally, outVars, regVars, svcVars, fifoVars, ownVars, exitVars, shutVars, pickVars, cleanVars, listVars, tailVars, infoVars, cmpVars, lockVars>>

InitBus ==
    /\ upIn = <<>>
    /\ hub = NoHub
    /\ upOut = 0
    /\ tally = [dropped |-> FALSE, sentAfterDrop |-> FALSE]

NextBus ==
    \/ \E s \in Senders, info \in BusInfos : AddSend(s, info)
    \/ \E s \in Senders, info \in BusInfos : RemoveSend(s, info)
    \/ \E info \in BusInfos : TrySendInfo(info)
    \/ BusReceive
    \/ BusForward
    \/ Consume

(***************************************************************************)
(* Sanitize and LoadServiceFile (config/service.go), and the configs the   *)
(* registry holds.                                                         *)
(***************************************************************************)
\* a CleanAfter other than zero and other than the default
SomeCleanAfter == 10

\* the entries a yaml file can give a name: Temp and CleanAfter have yaml
\* keys of their own (config/service.go:33-34); auto-start and
\* restart-on-exit are both set or both left out
YamlConfs ==
    {ConfOf(1, FALSE, FALSE, temp, cleanAfter) :
        temp \in BOOLEAN, cleanAfter \in {0, SomeCleanAfter}}
        \cup {ConfOf(1, TRUE, TRUE, FALSE, 0)}

\* Service.Sanitize (config/service.go:40-44) returns an error: the name or
\* the program is the empty string, which 0 stands for in a Program
SanitizeFails(name, c) == name = "" \/ c.Program = 0

\* LoadServiceFile (config/service.go:111-115): Sanitize is called on the
\* loop variable, a copy of the element, so its error is seen and what it
\* sets is lost; the slice returned holds the entry as it was decoded
Loaded(c) == LET service == Sanitize(c) IN c

\* the user writes an entry of the service file, with any of the yaml keys
WriteFile(name, c) ==
    /\ load.pc \in {"idle", "done"}
    /\ ~SanitizeFails(name, c)
    /\ Loaded(c) # file[name]
    /\ file' = [file EXCEPT ![name] = Loaded(c)]
    /\ pub' = <<>>
    /\ UNCHANGED <<load, services, insts, watch, reap, autoStarts, run, otherVars>>

\* the user deletes an entry of the service file
DeleteEntry(name) ==
    /\ load.pc \in {"idle", "done"}
    /\ file[name] # NoConf
    /\ file' = [file EXCEPT ![name] = NoConf]
    /\ pub' = <<>>
    /\ UNCHANGED <<load, services, insts, watch, reap, autoStarts, run, otherVars>>

\* Server.Run (cmd_run.go:176-196) with the name and a CleanAfter given
RunWith(name, cleanAfter) ==
    /\ run = 0
    /\ addService(name, Sanitize(ConfOf(1, FALSE, FALSE, TRUE, cleanAfter)), FALSE)
    /\ run' = IF AddRefused(name, FALSE) THEN 0 ELSE Len(insts')
    /\ UNCHANGED <<load, watch, file, otherVars>>

NextSan ==
    \/ \E name \in Served, c \in YamlConfs : WriteFile(name, c)
    \/ \E name \in Served : DeleteEntry(name)
    \/ \E name \in Served, cleanAfter \in {0, SomeCleanAfter} : RunWith(name, cleanAfter)
    \/ RunStart
    \/ \E name \in Served : StartCmd(name)
    \/ \E i \in 1 .. MaxInsts : ChildExit(i)
    \/ LoadBegin
    \/ LoadEntry
    \/ LoadAdd
    \/ LoadList
    \/ LoadListed
    \/ LoadRemove
    \/ LoadEnd

(***************************************************************************)
(* EqualIgnoringSafeFields (config/service.go:66-90) on whole configs.     *)
(***************************************************************************)
\* the values of an Args field: nil, empty, one argument
ArgsValues == {NilArgs, [nil |-> FALSE, elems |-> <<>>], [nil |-> FALSE, elems |-> <<"yay">>]}

\* config.Service (config/service.go:17-35) with all its fields; Env is 0 for
\* a nil map and 1 for a map with one variable; the safe fields are all set
\* or all clear
Services ==
    [Name : NameSet, Program : 1 .. MaxPrograms, Args : ArgsValues, Dir : {"/", "/tmp"},
     Env : {0, 1}, AutoStart : BOOLEAN, RestartOnExit : {FALSE}, Temp : {FALSE},
     CleanAfter : {0, SomeCleanAfter}]

\* no call was made yet
NoCmp == [pc |-> "ready", a |-> 0, b |-> 0, res |-> FALSE]

\* a.EqualIgnoringSafeFields(&b) is called and returns
Compare(a, b) ==
    /\ cmp.pc = "ready"
    /\ cmp' = [pc |-> "compared", a |-> a, b |-> b, res |-> EqualIgnoringSafeFields(a, b)]
    /\ UNCHANGED <<svcVars, outVars, regVars, fifoVars, ownVars, exitVars, shutVars, pickVars, cleanVars, listVars, tailVars, infoVars, busVars, lockVars>>

\* the caller drops the result
Forget ==
    /\ cmp.pc = "compared"
    /\ cmp' = NoCmp
    /\ UNCHANGED <<svcVars, outVars, regVars, fifoVars, ownVars, exitVars, shutVars, pickVars, cleanVars, listVars, tailVars, infoVars, busVars, lockVars>>

InitCmp == cmp = NoCmp

NextCmp ==
    \/ cmp.pc = "ready" /\ \E a \in Services, b \in Services : Compare(a, b)
    \/ Forget

(***************************************************************************)
(* Service.Info (service.go:249-288), which calls Service.Pid (431-441)    *)
(* with the read lock of s.stateLock held, and the goroutines that take    *)
(* the lock exclusively: Start (304), Stop (392) and watchForExit (553).   *)
(* A sync.RWMutex grants no read lock while a goroutine waits in Lock.     *)
(***************************************************************************)
Callers == {"i1", "i2"}

Writers == {"Start", "Stop", "watchForExit"}

\* RWMutex.RLock returns: nobody holds the lock exclusively or waits for it
CanRLock == rw.writer = "none" /\ rw.pending = {}

\* service.go:250 s.stateLock.RLock() of an Info call
InfoRLock(i) ==
    /\ calls[i] = "idle"
    /\ CanRLock
    /\ rw' = [rw EXCEPT !.readers = @ + 1]
    /\ calls' = [calls EXCEPT ![i] = "Info"]
    /\ UNCHANGED <<svcVars, outVars, regVars, fifoVars, ownVars, exitVars, shutVars, pickVars, cleanVars, listVars, tailVars, infoVars, busVars, cmpVars>>

\* service.go:253-268: Running() and the runtime, then the call of s.Pid(),
\* which is at its RLock (432)
InfoCallsPid(i) ==
    /\ calls[i] = "Info"
    /\ calls' = [calls EXCEPT ![i] = "Pid"]
    /\ UNCHANGED rw
    /\ UNCHANGED <<svcVars, outVars, regVars, fifoVars, ownVars, exitVars, shutVars, pickVars, cleanVars, listVars, tailVars, infoVars, busVars, cmpVars>>

\* service.go:432 s.stateLock.RLock() inside Pid returns
PidRLock(i) ==
    /\ calls[i] = "Pid"
    /\ CanRLock
    /\ rw' = [rw EXCEPT !.readers = @ + 1]
    /\ calls' = [calls EXCEPT ![i] = "inPid"]
    /\ UNCHANGED <<svcVars, outVars, regVars, fifoVars, ownVars, exitVars, shutVars, pickVars, cleanVars, listVars, tailVars, infoVars, busVars, cmpVars>>

\* service.go:433-440: Pid returns, its deferred RUnlock
PidRUnlock(i) ==
    /\ calls[i] = "inPid"
    /\ rw' = [rw EXCEPT !.readers = @ - 1]
    /\ calls' = [calls EXCEPT ![i] = "Tail"]
    /\ UNCHANGED <<svcVars, outVars, regVars, fifoVars, ownVars, exitVars, shutVars, pickVars, cleanVars, listVars, tailVars, infoVars, busVars, cmpVars>>

\* service.go:279-287: the tail is copied, Info returns, its deferred RUnlock
InfoRUnlock(i) ==
    /\ calls[i] = "Tail"
    /\ rw' = [rw EXCEPT !.readers = @ - 1]
    /\ calls' = [calls EXCEPT ![i] = "idle"]
    /\ UNCHANGED <<svcVars, outVars, regVars, fifoVars, ownVars, exitVars, shutVars, pickVars, cleanVars, listVars, tailVars, infoVars, busVars, cmpVars>>

\* s.stateLock.Lock() is called (service.go:304, 392, 553): from now on no
\* read lock is granted
LockCalled(w) ==
    /\ w \notin rw.pending
    /\ rw.writer # w
    /\ rw' = [rw EXCEPT !.pending = @ \cup {w}]
    /\ UNCHANGED calls
    /\ UNCHANGED <<svcVars, outVars, regVars, fifoVars, ownVars, exitVars, shutVars, pickVars, cleanVars, listVars, tailVars, infoVars, busVars, cmpVars>>

\* Lock returns: the read locks are all released and no other goroutine
\* holds the lock
LockReturns(w) ==
    /\ w \in rw.pending
    /\ rw.readers = 0
    /\ rw.writer = "none"
    /\ rw' = [rw EXCEPT !.pending = @ \ {w}, !.writer = w]
    /\ UNCHANGED calls
    /\ UNCHANGED <<svcVars, outVars, regVars, fifoVars, ownVars, exitVars, shutVars, pickVars, cleanVars, listVars, tailVars, infoVars, busVars, cmpVars>>

\* the deferred s.stateLock.Unlock()
Unlock(w) ==
    /\ rw.writer = w
    /\ rw' = [rw EXCEPT !.writer = "none"]
    /\ UNCHANGED calls
    /\ UNCHANGED <<svcVars, outVars, regVars, fifoVars, ownVars, exitVars, shutVars, pickVars, cleanVars, listVars, tailVars, infoVars, busVars, cmpVars>>

InitLock ==
    /\ rw = [readers |-> 0, pending |-> {}, writer |-> "none"]
    /\ calls = [i \in Callers |-> "idle"]

NextLock ==
    \/ \E i \in Callers : InfoRLock(i)
    \/ \E i \in Callers : InfoCallsPid(i)
    \/ \E i \in Callers : PidRLock(i)
    \/ \E i \in Callers : PidRUnlock(i)
    \/ \E i \in Callers : InfoRUnlock(i)
    \/ \E w \in Writers : LockCalled(w)
    \/ \E w \in Writers : LockReturns(w)
    \/ \E w \in Writers : Unlock(w)

Init == InitSvc /\ InitOut /\ InitReg /\ InitFifo /\ InitOwn /\ InitExit /\ InitShut /\ InitPick /\ InitClean /\ InitList /\ InitTail /\ InitInfo /\ InitBus /\ InitCmp /\ InitLock

\* the output buffer of one service, whose lifecycle is left aside
InitOfOutput == Init /\ conf.Temp

SpecOut == InitOfOutput /\ [][NextOut]_vars

Spec == Init /\ [][NextSvc]_vars

\* the position of a name in a sequence of names, 0 if it is not there
RECURSIVE IndexOf(_, _)
IndexOf(name, ns) ==
    IF ns = <<>> THEN 0
    ELSE IF ns[Len(ns)] = name THEN Len(ns)
    ELSE IndexOf(name, SubSeq(ns, 1, Len(ns) - 1))

\* a registry holding the names given a config by cs, running where rs says
\* so, with the restart watchers Server.Start has made for them
InitRegistry(cs, rs, listed) ==
    LET regd == SelectSeq(Names, LAMBDA n : cs[n] # NoConf) IN
    /\ insts = [k \in 1 .. Len(regd) |->
                   [Name |-> regd[k], Conf |-> cs[regd[k]], running |-> rs[regd[k]],
                    ended |-> FALSE]]
    /\ services = [n \in NameSet |-> IndexOf(n, regd)]
    /\ watch = [n \in NameSet |->
                   IF cs[n].RestartOnExit /\ rs[n] THEN IndexOf(n, regd) ELSE 0]
    /\ reap = {}
    /\ autoStarts = {}
    /\ file = listed
    /\ load = NoLoad
    /\ pub = <<>>
    /\ run = 0

\* LoadServices called, and called again, with no other step in between,
\* from any registry and any service file
InitOfLoad ==
    /\ InitSvc /\ conf.Temp /\ InitOut /\ InitFifo /\ InitOwn /\ InitExit /\ InitShut /\ InitPick /\ InitClean /\ InitList /\ InitTail /\ InitInfo /\ InitBus /\ InitCmp /\ InitLock
    /\ \E cs \in [NameSet -> FileConfs \cup {NoConf, RunConf}], rs \in [NameSet -> BOOLEAN],
          listed \in [NameSet -> FileConfs \cup {NoConf}] :
         /\ \A n \in NameSet : rs[n] => cs[n] # NoConf
         /\ InitRegistry(cs, rs, listed)

SpecLoad == InitOfLoad /\ [][NextLoad]_vars

\* one service: its commands, its child, its watchers, the file and
\* LoadServices, all running together
InitOfRegistry == Init /\ conf.Temp

SpecReg == InitOfRegistry /\ [][NextReg]_vars

\* the daemons and the rendezvous file alone
InitOfFifo == Init /\ conf.Temp

SpecFifo == InitOfFifo /\ [][NextFifo]_vars

\* the daemons and the rendezvous file, one system call at a time
InitOfOwner == Init /\ conf.Temp

SpecOwn == InitOfOwner /\ [][NextOwn]_vars

\* daemons spawned on the stale file that a daemon killed twice the
\* heartbeat interval ago has left, and Exit called on the one that serves
InitOfExit ==
    /\ InitSvc /\ conf.Temp /\ InitOut /\ InitReg /\ InitOwn /\ InitExit /\ InitShut /\ InitPick /\ InitClean /\ InitList /\ InitTail /\ InitInfo /\ InitBus /\ InitCmp /\ InitLock
    /\ now = 2 * HeartbeatInterval
    /\ fifo = [exists |-> TRUE, modTime |-> 0]
    /\ \E k \in Daemons \ {Looper} :
         daemon = [d \in Daemons |-> IF d = k THEN [NoDaemon EXCEPT !.st = "killed"] ELSE NoDaemon]

SpecExit == InitOfExit /\ [][NextExit]_vars

\* the shutdown of a daemon, from any registry
InitOfShut ==
    /\ InitSvc /\ conf.Temp /\ InitOut /\ InitFifo /\ InitOwn /\ InitExit /\ InitShut /\ InitPick /\ InitClean /\ InitList /\ InitTail /\ InitInfo /\ InitBus /\ InitCmp /\ InitLock
    /\ \E cs \in [NameSet -> FileConfs \cup {NoConf, RunConf}], rs \in [NameSet -> BOOLEAN] :
         /\ \A n \in NameSet : rs[n] => cs[n] # NoConf
         /\ InitRegistry(cs, rs, EmptyFile)

SpecShut == InitOfShut /\ [][NextShut]_vars

\* Run calls, with a name and without, and the commands and exits of the
\* services, from any registry of one service or none
InitOfRun ==
    /\ InitSvc /\ conf.Temp /\ InitOut /\ InitFifo /\ InitOwn /\ InitExit /\ InitShut /\ InitPick /\ InitClean /\ InitList /\ InitTail /\ InitInfo /\ InitBus /\ InitCmp /\ InitLock
    /\ \E cs \in [NameSet -> FileConfs \cup {NoConf, RunConf}], rs \in [NameSet -> BOOLEAN] :
         /\ \A n \in NameSet : rs[n] => cs[n] # NoConf
         /\ Cardinality({n \in NameSet : cs[n] # NoConf}) < MaxInsts
         /\ InitRegistry(cs, rs, EmptyFile)

SpecRun == InitOfRun /\ [][NextRun]_vars

\* Clean calls, while services are started and exit and time passes, from
\* any registry of services that have not ended yet
InitOfClean ==
    /\ InitSvc /\ conf.Temp /\ InitOut /\ InitFifo /\ InitOwn /\ InitExit /\ InitShut /\ InitPick /\ InitClean /\ InitList /\ InitTail /\ InitInfo /\ InitBus /\ InitCmp /\ InitLock
    /\ \E cs \in [NameSet -> {NoConf, RunConf, ConfOf(1, FALSE, FALSE, FALSE, 0)}], rs \in [NameSet -> BOOLEAN] :
         /\ \A n \in NameSet : rs[n] => cs[n] # NoConf
         /\ InitRegistry(cs, rs, EmptyFile)

SpecClean == InitOfClean /\ [][NextClean]_vars

\* List calls, while services are started and exit, from any registry
InitOfList ==
    /\ InitSvc /\ conf.Temp /\ InitOut /\ InitFifo /\ InitOwn /\ InitExit /\ InitShut /\ InitPick /\ InitClean /\ InitList /\ InitTail /\ InitInfo /\ InitBus /\ InitCmp /\ InitLock
    /\ \E cs \in [NameSet -> FileConfs \cup {NoConf, RunConf}], rs \in [NameSet -> BOOLEAN] :
         /\ \A n \in NameSet : rs[n] => cs[n] # NoConf
         /\ InitRegistry(cs, rs, EmptyFile)

SpecList == InitOfList /\ [][NextList]_vars

\* a Tail call on the output buffer of a service while its processes write
InitOfTail ==
    /\ InitSvc /\ conf.Temp /\ InitOut /\ InitFifo /\ InitOwn /\ InitExit /\ InitShut /\ InitPick /\ InitClean /\ InitList /\ InitTail /\ InitInfo /\ InitBus /\ InitCmp /\ InitLock
    /\ InitRegistry([n \in NameSet |-> IF n = Tailed THEN RunConf ELSE NoConf],
                    [n \in NameSet |-> n = Tailed], EmptyFile)

SpecTail == InitOfTail /\ [][NextTail]_vars

\* Info taken of a service in every combination of the fields it reads
InitOfInfo ==
    /\ InitSvc /\ conf.Temp /\ InitOut /\ InitReg /\ InitFifo /\ InitOwn /\ InitExit /\ InitShut /\ InitPick /\ InitClean /\ InitList /\ InitTail /\ InitBus /\ InitCmp /\ InitLock
    /\ shown = NoShown
    /\ st \in [running : BOOLEAN, userStopped : BOOLEAN, RestartOnExit : BOOLEAN,
                state : ProcessStates \cup {NoState}]

SpecInfo == InitOfInfo /\ [][NextInfo]_vars

\* the event bus, whose goroutine runs whenever it can
InitOfBus == Init /\ conf.Temp

SpecBus == InitOfBus /\ [][NextBus]_vars /\ WF_vars(BusReceive) /\ WF_vars(BusForward)

\* Run, LoadServices and the edits of a file with any yaml keys, one name
InitOfSanitize == Init /\ conf.Temp

SpecSan == InitOfSanitize /\ [][NextSan]_vars

\* calls of EqualIgnoringSafeFields on any two configs
InitOfCompare == Init /\ conf.Temp

SpecCmp == InitOfCompare /\ [][NextCmp]_vars

\* Info calls and the goroutines that lock the state exclusively
InitOfLock == Init /\ conf.Temp

SpecLock == InitOfLock /\ [][NextLock]_vars

(***************************************************************************)
(* Properties of output.Get, checked under SpecOut.                        *)
(***************************************************************************)
Max2(a, b) == IF a > b THEN a ELSE b

InSeq(x, sq) == \E i \in 1 .. Len(sq) : sq[i] = x

\* the lines of a call are consecutive captures, in capture order
Consecutive(sq) == \A i \in 1 .. Len(sq) - 1 : sq[i + 1] = sq[i] + 1

\* C9: nextIndex is the global index one past the last returned line (the
\* place the call started at when it returned nothing), and a Get that
\* continues at the nextIndex of an earlier call returns consecutive lines
\* in capture order, none of them returned by the earlier call or captured
\* before its lines, starting exactly at nextIndex or, when eviction has
\* advanced the window past it, at the first retained line.
GetContinuesAtNextIndex ==
    LET c == tail.cur
        q == tail.prev
    IN  c.called =>
          /\ Consecutive(c.seqs)
          /\ c.seqs # <<>> => c.nextIndex = c.seqs[Len(c.seqs)] + 1
          /\ (c.seqs = <<>> /\ c.index >= 0) => c.nextIndex = Max2(c.index, c.offset)
          /\ q.called =>
                /\ \A i \in 1 .. Len(c.seqs) :
                      /\ c.seqs[i] >= q.nextIndex
                      /\ ~InSeq(c.seqs[i], q.seqs)
                /\ \A j \in 1 .. Len(q.seqs) : q.seqs[j] < q.nextIndex
                /\ c.seqs # <<>> => c.seqs[1] = Max2(q.nextIndex, c.offset)

\* C9 witness: both calls returned lines and eviction advanced the window
\* past the first call's nextIndex in between
GetContinuedAfterEviction ==
    /\ tail.prev.called
    /\ tail.prev.seqs # <<>>
    /\ tail.cur.seqs # <<>>
    /\ tail.cur.offset > tail.prev.nextIndex

\* C10: eof is reported exactly when pid # 0 and pid # nextPid, never for
\* pid = 0, and once eof was reported for a pid P (one the buffer has
\* followed) together with nextIndex i, a later Get(i, P, _) returns no line.
GetEofIsFinal ==
    LET c == tail.cur
        q == tail.prev
    IN  c.called =>
          /\ c.eof <=> (c.pid # 0 /\ c.pid # c.nextPid)
          /\ c.pid = 0 => ~c.eof
          /\ (q.called /\ q.eof /\ q.followed /\ c.pid = q.pid) => c.seqs = <<>>


(***************************************************************************)
(* Properties of the Service lifecycle                                     *)
(***************************************************************************)
\* a Stop command that has returned
StopReturned(c) == thr[c].pc = "idle" /\ thr[c].op = "Stop"

\* C1: at most one child process of the Service instance is alive at any
\* time, whatever the interleaving of Start calls and process exits.
AtMostOneLiveChild == Cardinality(LiveChildren) <= 1

\* C2 as stated: at every moment the service is reported running iff
\* startChan is closed and exitChan is open, and exactly one of the two
\* channels is closed.
ChannelsAlternateAlways ==
    /\ Running <=> (startChan \in startClosed /\ exitChan \notin exitClosed)
    /\ (startChan \in startClosed) # (exitChan \in exitClosed)

\* C2: whenever the state lock is not held by Start or watchForExit, the
\* service is reported running iff startChan is closed and exitChan is
\* open, and exactly one of the two channels is closed.
ChannelsAlternate == ~stateLocked => ChannelsAlternateAlways

\* the service is running again after an exit of an earlier process
RunningAfterRestart ==
    /\ ~stateLocked
    /\ Running
    /\ \E k \in 1 .. MaxStarts : procs[k] = "done"

\* C3: while the service is restart-watched and not running, the daemon
\* and with it the restart watcher is alive to call Start.
RestartWatchSurvives == (watchedServices # "none" /\ ~Running) => ~crashed

\* C4: once a Stop command has returned and until the next Start command,
\* the service has no registered restart watcher and no watcher starts it.
NoRestartAfterStop == ~rogue /\ (quiet => watchedServices = "none")

\* C5: when a temp service has exited and everything that acts on it has
\* come to rest, a death watcher is waiting or removing it, or it is
\* already removed.
TempReapPending ==
    (/\ conf.Temp /\ registered /\ ~crashed
     /\ ~Running /\ endTime
     /\ \A k \in 1 .. MaxStarts : procs[k] \in {"none", "done"}
     /\ pubs = {}
     /\ \A c \in Cmds : thr[c].pc = "idle"
     /\ bus.st = "recv")
    => \E r \in Reapers : thr[r].pc # "idle"

\* C6: the Stop that removeService calls never finds the temp service
\* running, so a death watcher never signals a running service.
ReaperNeverStopsRunning ==
    \A r \in Reapers : thr[r].pc \notin {"StopSignal", "StopWait", "StopMark"}

\* C7: Stop returns an error only after INT, TERM and KILL were all sent
\* and each wait ran out without the exit being seen.
StopErrorOnlyAfterEscalation ==
    \A c \in Cmds : (StopReturned(c) /\ thr[c].res # "ok") =>
        (thr[c].res = "failed" /\ thr[c].sig = NumSignals)

RECURSIVE RetainedBytes(_)
RetainedBytes(ls) == IF ls = <<>> THEN 0 ELSE ls[1].Line + RetainedBytes(Tail(ls))

\* C11: the lines retained in the ring, from both streams and all the
\* processes of the service, hold at most maxOutputSize bytes plus one line.
RingWithinCap == RetainedBytes(lines) <= MaxOutputSize + MaxLineLen

(***************************************************************************)
(* Properties of removeService                                             *)
(***************************************************************************)
\* C13: the Info with Dead set that removeService hands over when it has
\* deleted the service is the last event of that instance: no Info without
\* Dead is received by the watchServices goroutine after it.
DeadInfoIsLast == ~registered => (bus.st = "busy" => bus.info.Dead)


(***************************************************************************)
(* The registry and LoadServices                                           *)
(***************************************************************************)
\* C12: addService fails when the name is present and replace is false, and
\* when it is present, replace is true and the current instance runs; then
\* the registry and the instances are unchanged and nothing is published.
\* Otherwise the name maps to the new instance, exactly one Info is
\* published and, with AutoStart, a Start is launched.  The addService calls
\* are those of LoadServices and of Run.
AddServiceContract ==
    [][ /\ (load.pc = "add" /\ load'.pc # "add") =>
            LET name == Head(load.todo)
                replace == (load.branch = "replace")
                current == services[name]
            IN  IF current # 0 /\ (~replace \/ insts[current].running)
                THEN /\ services' = services
                     /\ insts' = insts
                     /\ pub' = <<>>
                     /\ autoStarts' = autoStarts
                     /\ load'.err = "Failed to add"
                ELSE /\ insts' = Append(insts, New(name, file[name]))
                     /\ services' = [services EXCEPT ![name] = Len(insts')]
                     /\ Len(pub') = 1
                     /\ pub'[1].Inst = Len(insts') /\ ~pub'[1].Dead
                     /\ (file[name].AutoStart => name \in autoStarts')
                     /\ load'.err = ""
        /\ (run = 0 /\ run' # 0) =>
            LET name == insts'[run'].Name IN
            /\ services[name] = 0
            /\ insts' = Append(insts, New(name, RunConf))
            /\ services' = [services EXCEPT ![name] = run']
            /\ Len(pub') = 1
            /\ pub'[1].Inst = run' /\ ~pub'[1].Dead
      ]_vars

\* an addService that would replace a service was refused because the
\* service had been started
AddRefusedForRunning ==
    /\ load.err = "Failed to add"
    /\ \E n \in NameSet : services[n] # 0 /\ insts[services[n]].running

\* C14: an instance whose child runs, or that a restart watcher can still
\* start, is the instance registered under its name: an instance that was
\* removed or displaced is not started again and has no child left running.
OnlyRegisteredInstancesLive ==
    \A i \in 1 .. Len(insts) :
        (insts[i].running \/ \E n \in NameSet : watch[n] = i) => services[insts[i].Name] = i

\* the reply of LoadServices: the four classes
Reply(l) == <<l.new, l.updated, l.deprecated, l.removed>>

\* C15: for each entry c of the file that LoadServices processes: a name
\* that is not registered gets a new instance and is reported NEW; a name
\* registered with the same config is left alone and not reported; a name
\* registered with another config and not running gets a new instance with
\* config c in place of the old one and is reported UPDATED.
EntriesClassified ==
    [][ /\ (load.pc = "entries" /\ load.todo # <<>>) =>
            LET name == Head(load.todo)
                srvc == services[name]
            IN  /\ (srvc # 0 /\ insts[srvc].Conf = file[name]) =>
                       /\ load' = [load EXCEPT !.todo = Tail(load.todo)]
                       /\ UNCHANGED <<services, insts, watch, autoStarts>>
                /\ (srvc = 0 \/ (insts[srvc].Conf # file[name] /\ ~insts[srvc].running)) =>
                       /\ load'.pc = "add"
                       /\ UNCHANGED <<services, insts, watch, autoStarts>>
        /\ (load.pc = "add" /\ load'.pc # "add") =>
            LET name == Head(load.todo)
                srvc == services[name]
            IN  /\ srvc = 0 =>
                       /\ insts' = Append(insts, New(name, file[name]))
                       /\ services' = [services EXCEPT ![name] = Len(insts')]
                       /\ Reply(load') = <<load.new \cup {name}, load.updated,
                                            load.deprecated, load.removed>>
                       /\ load'.todo = Tail(load.todo) /\ load'.err = ""
                /\ (srvc # 0 /\ insts[srvc].Conf # file[name] /\ ~insts[srvc].running) =>
                       /\ insts' = Append(insts, New(name, file[name]))
                       /\ services' = [services EXCEPT ![name] = Len(insts')]
                       /\ Reply(load') = <<load.new, load.updated \cup {name},
                                            load.deprecated, load.removed>>
                       /\ load'.todo = Tail(load.todo) /\ load'.err = ""
      ]_vars

\* a registered service that was not running has been replaced and reported UPDATED
ReplacedAndUpdated ==
    \E n \in load.updated :
        /\ services[n] > 1
        /\ pub # <<>> /\ pub[1].Inst = services[n]
        /\ insts[services[n]].Conf = file[n]
        /\ \E i \in 1 .. Len(insts) : i # services[n] /\ insts[i].Name = n

\* C16: when an entry of the file differs in a field that is not safe from
\* the registered service of its name, and that service runs, LoadServices
\* returns an error; the config, the child and the restart watch of the
\* service are unchanged, and what the call did for the entries before
\* this one stays: the registry and the reply are as they were.
UnsafeChangeRefused ==
    [][ (load.pc = "entries" /\ load.todo # <<>>) =>
            LET name == Head(load.todo)
                srvc == services[name]
            IN  (srvc # 0 /\ insts[srvc].running /\ insts[srvc].Conf.Program # file[name].Program) =>
                    /\ load'.pc = "done"
                    /\ load'.err # ""
                    /\ Reply(load') = Reply(load)
                    /\ UNCHANGED <<services, insts, watch, autoStarts, reap>>
      ]_vars

\* LoadServices has returned the error of an unsafe change after it had
\* added the service of an earlier entry, which is still registered
RefusedAfterEarlierEntry ==
    /\ load.pc = "done"
    /\ load.err = "Cannot apply these changes to a running service"
    /\ \E n \in load.new : services[n] # 0 /\ insts[services[n]].Conf = file[n]
    /\ \E n \in NameSet :
           /\ services[n] # 0 /\ insts[services[n]].running
           /\ insts[services[n]].Conf.Program # file[n].Program

\* C17: of the registered names that the loaded file does not list, a
\* service that is not running is removed from the registry and reported
\* REMOVED, and a service that is running keeps running, is marked temp with
\* CleanAfter 0 and is reported DEPRECATED, not REMOVED.
AbsentClassified ==
    [][ /\ (load.pc = "removed" /\ load.list # <<>> /\ load' # load) =>
            LET srvc == Head(load.list)
                name == insts[srvc].Name
            IN  (file[name] = NoConf /\ services[name] = srvc) =>
                    IF insts[srvc].running
                    THEN /\ insts'[srvc].running
                         /\ insts'[srvc].Conf.Temp /\ insts'[srvc].Conf.CleanAfter = 0
                         /\ services' = services
                         /\ Reply(load') = <<load.new, load.updated,
                                              load.deprecated \cup {name}, load.removed>>
                    ELSE load'.pc = "remove" /\ services' = services /\ insts' = insts
        /\ (load.pc = "remove" /\ load'.pc # "remove") =>
            LET name == insts[Head(load.list)].Name
                srvc == services[name]
            IN  srvc # 0 =>
                    IF insts[srvc].running
                    THEN insts'[srvc].running /\ services' = services /\ name \notin load'.removed
                    ELSE services'[name] = 0 /\ name \in load'.removed
      ]_vars

\* LoadServices has deprecated instance i: temp, to be cleaned at once
Deprecated(i) == insts[i].Conf.Temp /\ insts[i].Conf.CleanAfter = 0

\* C18: once a service that LoadServices deprecated has been removed from
\* the registry, which happens after its child exits, no child of it runs,
\* with restart-on-exit as without.
DeprecatedGoneForGood ==
    \A i \in 1 .. Len(insts) :
        (Deprecated(i) /\ services[insts[i].Name] # i) => ~insts[i].running

\* C19: a LoadServices call that follows another one, the file and the
\* registry untouched in between, reports nothing NEW, UPDATED, DEPRECATED
\* or REMOVED and leaves the registry as it was.
SecondLoadChangesNothing ==
    [][ load'.again =>
            /\ Reply(load') = <<{}, {}, {}, {}>>
            /\ load.again => (services' = services /\ insts' = insts /\ watch' = watch)
      ]_vars


SingleOwner ==
    /\ Cardinality({d \in Daemons : daemon[d].st \in {"serving", "stopping"}}) <= 1
    /\ \A d \in Daemons : daemon[d].st = "serving" => fifo.exists /\ owner = d

\* C22: once Exit has been called, the serve loop leaves its accept loop,
\* whether it was in AcceptUnix or between two accepts, after one Exit or
\* several: when the Exit calls are over, the loop is not left waiting
\* in AcceptUnix with no connection to accept.
ExitEndsServeLoop ==
    ( /\ \E x \in Exits : exits[x] \in {"returned", "failed"}
      /\ \A x \in Exits : exits[x] # "dial" )
    => ~(daemon[Looper].st = "serving" /\ serve.pc = "accept" /\ serve.backlog = 0)

\* C23: when Init returns from its shutdown, no service that was running
\* when the stop request was read is still running (Stop reports no error
\* in this model).
ShutdownStopsAll ==
    shut.pc = "returned" => \A i \in shut.was : ~insts[i].running

\* a service that a step has taken out of the registry or put another in
\* the place of
Displaced ==
    {i \in 1 .. Len(insts) : services[insts[i].Name] = i /\ services'[insts[i].Name] # i}

\* C24: a Run call without a name takes the basename of the program when
\* it is free, removes the ended temporary service that holds it, and else
\* settles on a suffixed name that is not registered; no step of Run takes
\* a running or a permanent service out of the registry or stops it, and
\* Run with a name that is registered changes nothing.
RunNamesSafely ==
    [][ /\ \A path \in Paths :
             RunLook(path) /\ Registered(Base(path)) = 0 => pick'.name = Base(path)
        /\ pick.pc = "named" /\ pick'.pc = "add" => Registered(pick'.name) = 0
        /\ pick' # pick \/ (\E name \in NameSet : RunAdd(name)) =>
             \A i \in Displaced : insts[i].Conf.Temp /\ ~insts[i].running
        /\ \A name \in NameSet :
             RunAdd(name) /\ services[name] # 0 => services' = services /\ insts' = insts
      ]_vars

\* C25: Clean removes a service exactly when it is temporary, not running,
\* matched by the pattern and ended at least age ago (any such service when
\* age is 0); what it removes is never running and never permanent, also
\* when the service is started during the call; a malformed pattern gives
\* an error and nothing is removed.
CleanContract ==
    [][ /\ clean.pc = "loop" /\ clean' # clean /\ clean.list # <<>> =>
             LET i == Head(clean.list) IN
             (clean'.pc = "remove") <=>
                 /\ insts[i].Conf.Temp /\ ~insts[i].running
                 /\ Matches(clean.pattern, Chars(insts[i].Name))
                 /\ (clean.age = 0 \/ OldEnough(clean.now, i, clean.age))
        /\ clean' # clean =>
             \A i \in 1 .. Len(insts) :
                 (services[insts[i].Name] = i /\ services'[insts[i].Name] # i) \/ (insts[i].running /\ ~insts'[i].running)
                     => insts[i].Conf.Temp /\ ~insts[i].running
        /\ \A pattern \in Patterns, age \in Ages, early \in BOOLEAN :
             CleanBegin(pattern, age, early) /\ BadPattern(pattern) => clean'.err /\ clean'.pc = "done"
      ]_vars

\* C26: List returns the Info of every registered service, of the running
\* ones only when running is asked for and of the temporary ones only when
\* temp is asked for, each once.
ListContract ==
    [][ reply' # reply =>
          LET args == reply'.args
              due == {i \in 1 .. Len(insts) :
                         /\ services[insts[i].Name] = i
                         /\ args.Running => insts[i].running
                         /\ args.Temp => insts[i].Conf.Temp}
          IN  /\ Len(reply'.Services) = Cardinality(due)
              /\ {reply'.Services[k] : k \in 1 .. Len(reply'.Services)} = {InfoOf(insts, i) : i \in due}
      ]_vars

SucceededFormula ==
    shown.taken =>
        LET s == shown.of
            exitedWell == s.state.exited /\ ~s.state.signaled /\ s.state.code = 0
        IN  /\ shown.Succeeded <=> (~s.running /\ (s.userStopped \/ (~s.RestartOnExit /\ exitedWell)))
            /\ shown.Running => ~shown.Succeeded
            /\ ~s.state.exited /\ ~s.userStopped => ~shown.Succeeded
            /\ ~s.running /\ s.userStopped => shown.Succeeded

\* an Info says succeeded of a service that the user stopped and whose
\* child did not exit with success
StoppedCountsAsSuccess ==
    /\ shown.taken /\ shown.Succeeded
    /\ shown.of.userStopped
    /\ shown.of.state.exited /\ (shown.of.state.signaled \/ shown.of.state.code # 0)

\* C29: no goroutine holds the registry lock while it waits, in
\* Service.Stop, for the child to exit after a signal.
NoLockAcrossStopWait ==
    \A t \in Threads : thr[t].pc = "StopWait" => ~(t \in Reapers /\ servicesLocked)

\* s is blocked in a send on updatesIn
Blocked(s) == \E k \in 1 .. Len(upIn) : upIn[k].by = s

\* C30: every send on updatesIn completes, however slow the consumer of
\* updatesOut is: the bus goroutine forwards or drops each Info without
\* waiting and receives again.
SendsComplete == \A s \in Senders : Blocked(s) ~> ~Blocked(s)

\* a blocked send has completed after an Info was dropped at the full
\* buffer, which is still full
SentWhileFull == upOut = UpdatesCap /\ tally.dropped /\ tally.sentAfterDrop

\* C31: Sanitize rejects an empty name and an empty program, zeroes the
\* CleanAfter of a config that is not temporary and gives a temporary one
\* without CleanAfter the default; and every config the registry holds has
\* CleanAfter zero unless it is temporary, whatever Run and LoadServices did.
SanitizedRegistry ==
    /\ \A c \in YamlConfs : SanitizeFails("", c) /\ SanitizeFails(Names[1], NoConf)
    /\ \A c \in YamlConfs :
         /\ ~c.Temp => Sanitize(c).CleanAfter = 0
         /\ c.Temp /\ c.CleanAfter = 0 => Sanitize(c).CleanAfter = CleanTempServicesAfter
         /\ c.Temp /\ c.CleanAfter # 0 => Sanitize(c) = c
    /\ \A n \in NameSet :
         services[n] # 0 /\ ~insts[services[n]].Conf.Temp
            => insts[services[n]].Conf.CleanAfter = 0

\* the fields that are not safe to change on a running service
Unsafe(c) == <<c.Name, c.Program, c.Args, c.Dir, c.Env>>

\* C32: EqualIgnoringSafeFields(a, b) is true exactly when a and b agree on
\* name, program, args, dir and env, whatever their safe fields are; so it
\* is true of two identical configs.
EqualExactlyOnUnsafe ==
    cmp.pc = "compared" => (cmp.res <=> Unsafe(cmp.a) = Unsafe(cmp.b))

\* C33: the exit channel of a run is closed only by the exit watcher of
\* that run, after its child was reaped and its outputs were read to their
\* end, with endTime and the exit status set; and the last Info of a run
\* is sent with its exit channel closed.
ExitClosedAfterReap ==
    [][/\ \A k \in 1 .. MaxStarts :
            k \notin exitClosed /\ k \in exitClosed' => procs[k] = "closing" /\ endTime
       /\ \A k \in 1 .. MaxStarts :
            procs[k] = "closed" /\ procs'[k] = "done" => k \in exitClosed]_vars

\* Service.Start of goroutine t returns an error from service.go:322-351 in
\* this step
StartFails(t) ==
    thr[t].pc = "StartLock" /\ thr'[t].pc = "StartUpdate" /\ thr'[t].err

\* C34: a Start that fails before the spawn launches nothing, and leaves
\* the service without a child, not running, its exit channel closed and
\* its start channel open.
FailedStartLeavesStopped ==
    [][\A t \in Threads :
         StartFails(t) =>
            /\ procs' = procs /\ pubs' = pubs
            /\ LiveChildren = {}
            /\ exitChan' \in exitClosed'
            /\ startChan' \notin startClosed']_vars

\* addServiceToRestartWatch launches watcher goroutine w in this step
Launched(w) ==
    \E c \in Cmds :
        /\ thr[c].pc = "StartWatch" /\ ~thr[c].err /\ conf.RestartOnExit
        /\ thr'[c].pc = "idle" /\ watchedServices' = w

\* C35: the pause of a restart watcher starts at minRestartPause, is
\* doubled up to maxRestartPause at each restart attempt, stays between the
\* two, is left alone when the service was started by something else during
\* the pause, and goes down only by the reset to minRestartPause, which
\* happens only after maxRestartPause has passed with the exit channel
\* still open.
PauseContract ==
    [][\A w \in Watchers :
         /\ Launched(w) => thr'[w].pause = minRestartPause
         /\ thr'[w].pc # "idle" =>
                minRestartPause <= thr'[w].pause /\ thr'[w].pause <= maxRestartPause
         /\ ~Launched(w) /\ thr[w].pc # "idle" /\ thr'[w].pc # "idle" =>
              /\ thr[w].pc = "inner" /\ thr'[w].pc = "StartLock" =>
                    thr'[w].pause = IF 2 * thr[w].pause > maxRestartPause
                                    THEN maxRestartPause ELSE 2 * thr[w].pause
              /\ thr'[w].pause > thr[w].pause =>
                    thr[w].pc = "inner" /\ thr'[w].pause <= 2 * thr[w].pause
              /\ thr'[w].pause < thr[w].pause =>
                    /\ thr'[w].pause = minRestartPause
                    /\ thr[w].pc = "outer" /\ thr[w].ch \notin exitClosed
              /\ WatchInnerStarted(w) => thr'[w].pause = thr[w].pause]_vars

\* a watcher whose pause has reached the ceiling attempts a restart
PauseAtCeiling ==
    \E w \in Watchers :
        thr[w].pc = "StartLock" /\ thr[w].pause = maxRestartPause /\ ~thr[w].cancel

\* C36: an entry of the file that differs from the running service of its
\* name in safe fields only is applied in place: the instance stays
\* registered and running, its config becomes the entry, its restart
\* watcher is added or cancelled as RestartOnExit goes on or off, and the
\* call goes on with the service reported as updated.
SafeChangeApplied ==
    [][load.pc = "entries" /\ load.todo # <<>> /\ load' # load =>
         LET name == Head(load.todo)
             c == confs[name]
             srvc == getService(name)
         IN  /\ srvc # 0 /\ insts[srvc].running
             /\ ~DeepEqual(insts[srvc].Conf, c)
             /\ insts[srvc].Conf.Program = c.Program
             =>  /\ services' = services
                 /\ Len(insts') = Len(insts)
                 /\ insts'[srvc].running
                 /\ DeepEqual(insts'[srvc].Conf, c)
                 /\ watch'[name] = IF c.RestartOnExit = insts[srvc].Conf.RestartOnExit
                                   THEN watch[name]
                                   ELSE IF c.RestartOnExit THEN srvc ELSE 0
                 /\ load'.pc = "entries" /\ load'.err = ""
                 /\ load'.updated = load.updated \cup {name}]_vars

\* the lines of pid p are next to each other in the buffer
Contiguous(p) ==
    \A i, j \in 1 .. Len(lines) :
        i < j /\ lines[i].Pid = p /\ lines[j].Pid = p =>
            \A k \in i .. j : lines[k].Pid = p

\* C37: once followNewProcess has attached a new pid, a reader of the
\* previous pid does not go through its loop again (it leaves at its next
\* line read), no line of the previous pid is appended any more, the lines
\* captured before stay, and the lines of each pid form one block of the
\* buffer.
PreviousAttachmentCancelled ==
    [][/\ \A r \in ReaderIds :
            readers[r].st = "scanning" /\ readers[r].pid < follows =>
                /\ ~ENABLED watchOutputLine(r, 1)
                /\ lines' = lines \/ lines'[Len(lines')].Pid # readers[r].pid
       /\ follows' # follows => lines' = lines
       /\ \A p \in Pids : Contiguous(p)']_vars

\* C38: the service a death watcher removes at its timeout is temporary at
\* that moment: a service that is not temporary and was registered under
\* the name since the watch began is never removed by it.
ReaperRemovesOnlyTemp ==
    [][\A name \in NameSet :
         DeathWatchTimeout(name) /\ services[name] # 0
            => insts[services[name]].Conf.Temp]_vars

\* C39: no channel is closed twice: the start channel is open when Start
\* closes it, and the exit channel is open when the exit watcher closes it,
\* so neither a handler nor a goroutine panics in a close.
NoDoubleClose ==
    [][/\ \A t \in Threads :
            thr[t].pc = "StartClose" /\ thr'[t].pc # "StartClose" =>
                startChan \notin startClosed
       /\ \A k \in 1 .. MaxStarts :
            procs[k] = "closing" /\ procs'[k] = "closed" =>
                exitChan \notin exitClosed]_vars

\* Info call i waits in Pid for a read lock that is refused because a
\* goroutine waits in Lock, which returns only when i has released the
\* read lock it holds
InfoDeadlocked(i) == calls[i] = "Pid" /\ rw.pending # {}

\* C40: Info never deadlocks: it is never stuck at the read lock of Pid
\* behind a goroutine that waits for the exclusive lock.
InfoNeverDeadlocks == \A i \in Callers : ~InfoDeadlocked(i)

=============================================================================
